---- MODULE Spec2Model ----
(***************************************************************************)
(* State-machine model of trading-cli: configuration loading, executor     *)
(* construction, the command handlers of package cmd and the per-account   *)
(* loops of internal/executor.  Floating-point prices are modelled as      *)
(* integers and sizes as exact rationals [n, d].                           *)
(***************************************************************************)
EXTENDS Integers, Sequences, FiniteSets, TLC

\* ------------------------------------------------------------------ bounds
MaxAccounts == 2

\* ------------------------------------------------------- program constants
MaxLeverage == 125
DefaultRR == 2
DeviationWarnPercent == 5
FullPercent == 100

\* ------------------------------------------------------------ value domains
Names == {"main", "backup"}
BrokerKinds == {"bingx", "other"}
Symbols == {"ETH-USDT", "BTC-USDT"}
NoSymbol == ""
Long == "LONG"
Short == "SHORT"
Sides == {Long, Short}

Nil == << >>
Some(x) == << x >>
IsNil(o) == Len(o) = 0
Val(o) == o[1]

\* exact rationals for sizes
Rat(n, d) == [n |-> n, d |-> d]
RatMul(a, b) == Rat(a.n * b.n, a.d * b.d)
RatEq(a, b) == a.n * b.d = b.n * a.d
RatLeq(a, b) == a.n * b.d <= b.n * a.d
RatLt(a, b) == a.n * b.d < b.n * a.d

SeqToSet(s) == {s[i] : i \in 1..Len(s)}

\* -------------------------------------------------------------- config.go
AccountEntries == [Name : Names, Broker : BrokerKinds, Enabled : BOOLEAN]

ConfigsOfLen(k) == [1..k -> AccountEntries]

Configs == UNION {ConfigsOfLen(k) : k \in 0..MaxAccounts}

\* Account.Validate: the modelled fields are name and broker kind
AccountValidate(a) == a.Broker = "bingx"

\* Config.Validate
ConfigValidate(c) ==
    /\ Len(c) # 0
    /\ \A i \in 1..Len(c) : AccountValidate(c[i])

\* Config.GetEnabledAccounts, as the indices of the enabled entries in order
EnabledIndices(c) == {i \in 1..Len(c) : c[i].Enabled}

GetEnabledAccounts(c) == EnabledIndices(c)

\* bingx.NewClient(apiKey, secretKey, isDemoMode): the client remembers the
\* configuration entry whose credentials built it and whether it talks to the
\* demo exchange
NewClientAlwaysLive(i, isDemoMode) == [account |-> i, demo |-> FALSE]

NewClient(i, isDemoMode) == [account |-> i, demo |-> isDemoMode]

\* executor.New: brokers[account.Name] = client for each enabled account, in
\* configuration order, so a later enabled entry of the same name replaces the
\* earlier one.
NewBrokers(c, isDemoMode) ==
    LET en == GetEnabledAccounts(c)
        names == {c[i].Name : i \in en}
    IN  [n \in names |->
            NewClient(CHOOSE i \in en : c[i].Name = n /\ \A j \in en : c[j].Name = n => j <= i,
                      isDemoMode)]

\* executor.New returns "unsupported broker" for an enabled non-bingx account
NewSupported(c) == \A i \in GetEnabledAccounts(c) : c[i].Broker = "bingx"

\* ------------------------------------------------- broker connections (env)
\* What one account's exchange connection answers during an invocation:
\* which call kind errors (and for which symbol), the available balance, the
\* market price and the open positions.
CallKinds == {"GetBalance", "GetCurrentPrice", "GetPositions", "GetPosition",
              "GetOrders", "SetLeverage", "PlaceOrder", "CancelAllOrders"}
NoFail == "none"
AnySymbol == "*"

Position(sym, side, size, entry) ==
    [Symbol |-> sym, Side |-> side, Size |-> size, EntryPrice |-> entry]

PosEthLong == Position("ETH-USDT", Long, Rat(2, 10), 100)
PosEthShort == Position("ETH-USDT", Short, Rat(3, 10), 100)
PosBtcShort == Position("BTC-USDT", Short, Rat(1, 10), 50000)

PositionLists == { << >>, << PosEthLong >>, << PosEthShort >>, << PosEthLong, PosBtcShort >> }

Balances == {0, 1000}
Prices == {90, 98, 102, 110}

BrokerEnv(fail, failSym, balance, price, positions) ==
    [fail |-> fail, failSym |-> failSym, balance |-> balance, price |-> price,
     positions |-> positions]

DefaultEnv == BrokerEnv(NoFail, AnySymbol, 1000, 98, << >>)

\* the broker call `kind` on `sym` returns an error
Fails(e, kind, sym) == e.fail = kind /\ (e.failSym = AnySymbol \/ e.failSym = sym)

\* broker.GetPositions(filter): all positions, or those of filter.Symbol
GetPositions(e, sym) ==
    IF sym = NoSymbol THEN e.positions
    ELSE SelectSeq(e.positions, LAMBDA p : p.Symbol = sym)

\* broker.GetPosition(symbol): the position on the symbol, or nil
GetPosition(e, sym) ==
    LET ps == SelectSeq(e.positions, LAMBDA p : p.Symbol = sym)
    IN  IF Len(ps) = 0 THEN Nil ELSE Some(ps[1])

\* ------------------------------------------------------------ call records
NoArg == [none |-> TRUE]
Call(kind, sym, ok, arg) == [kind |-> kind, sym |-> sym, ok |-> ok, arg |-> arg]

Succeeded == "succeeded"
Skipped == "skipped"
Failed == "failed"
Outcomes == {Succeeded, Skipped, Failed}
Result(outcome, reason) == [outcome |-> outcome, reason |-> reason]

\* what one pass of a loop body did on one account
Body(calls, results, warned) == [calls |-> calls, results |-> results, warned |-> warned]

\* --------------------------------------------- intent.NormalizedCommand
IntentOpen == "open_position"
IntentClose == "close_position"
IntentViewPositions == "view_positions"
IntentViewOrders == "view_orders"
IntentCancel == "cancel_orders"
IntentBalance == "check_balance"
IntentTrail == "trailing_stop"
IntentBreakEven == "break_even"
IntentUnknown == "unknown"

Command(intent, sym, side, entry, sl, tp, risk, rr, trig, cb, valid, missing, errors, conf) ==
    [Intent |-> intent, Symbol |-> sym, Side |-> side, EntryPrice |-> entry,
     StopLoss |-> sl, TakeProfit |-> tp, RiskPercent |-> risk, RRRatio |-> rr,
     TriggerPrice |-> trig, CallbackRate |-> cb, Valid |-> valid,
     Missing |-> missing, Errors |-> errors, Confidence |-> conf]

\* the command of an operation that takes none (plain flags)
NoCommand ==
    Command("none", NoSymbol, Nil, Nil, Nil, Nil, Nil, Nil, Nil, Nil, TRUE, << >>, << >>, 0)

\* ----------------------------------------- open.go: buildNormalizedCommand
OpenFlags(sym, side, entry, sl, risk, rr, tp) ==
    [openSymbol |-> sym, openSide |-> side, openEntry |-> entry, openSL |-> sl,
     openRisk |-> risk, openRR |-> rr, openTP |-> tp]

\* the switch on openSide: the parsed side, or nil for a text outside the vocabulary
ParseSide(text) ==
    IF text \in {"long", "LONG", "largo"} THEN Some(Long)
    ELSE IF text \in {"short", "SHORT", "corto"} THEN Some(Short)
    ELSE Nil

ErrRisk == "risk must be between 0 and 100"
ErrLongSL == "stop loss must be below entry price for LONG positions"
ErrShortSL == "stop loss must be above entry price for SHORT positions"
ErrSideRequired == "side is required"

\* the checks of lines 154-178: presence of the fields and the risk bounds
NormMissing(f) ==
    (IF f.openSymbol = "" THEN << "symbol" >> ELSE << >>)
    \o (IF f.openEntry <= 0 THEN << "entry_price" >> ELSE << >>)
    \o (IF f.openSL <= 0 THEN << "stop_loss" >> ELSE << >>)

\* fault: the upper bound is exclusive
NormRiskErrorsExclusive(f) ==
    IF f.openRisk <= 0 \/ f.openRisk >= 100 THEN << ErrRisk >> ELSE << >>

NormRiskErrors(f) ==
    IF f.openRisk <= 0 \/ f.openRisk > 100 THEN << ErrRisk >> ELSE << >>

\* fault: the price-logic check runs whatever the earlier checks found
NormPriceErrorsAlways(f, side, validSoFar) ==
    (IF side = Long /\ f.openSL >= f.openEntry THEN << ErrLongSL >> ELSE << >>)
    \o (IF side = Short /\ f.openSL <= f.openEntry THEN << ErrShortSL >> ELSE << >>)

\* the price-logic check of lines 180-190, run only while the command is valid
NormPriceErrors(f, side, validSoFar) ==
    IF ~validSoFar THEN << >>
    ELSE (IF side = Long /\ f.openSL >= f.openEntry THEN << ErrLongSL >> ELSE << >>)
         \o (IF side = Short /\ f.openSL <= f.openEntry THEN << ErrShortSL >> ELSE << >>)

\* cmd.Valid when line 180 is reached: set to true at line 155 and to false by
\* every presence check and by the risk check that fired
NormValidSoFar(f) ==
    /\ ~(f.openSymbol = "")
    /\ ~(f.openEntry <= 0)
    /\ ~(f.openSL <= 0)
    /\ ~(f.openRisk <= 0 \/ f.openRisk > 100)

\* cmd.Valid at return: the price-logic check clears it when it appends
NormValid(f, side) ==
    /\ NormValidSoFar(f)
    /\ ~(side = Long /\ f.openSL >= f.openEntry)
    /\ ~(side = Short /\ f.openSL <= f.openEntry)

\* fault: the risk check appends its error and leaves cmd.Valid alone
buildNormalizedCommandRiskKeepsValid(f) ==
    LET side == ParseSide(f.openSide) IN
    IF IsNil(side) THEN [err |-> TRUE, cmd |-> NoCommand]
    ELSE
      LET missing == NormMissing(f)
          validSoFar == Len(missing) = 0
          errors == NormRiskErrors(f) \o NormPriceErrors(f, Val(side), validSoFar)
      IN  [err |-> FALSE,
           cmd |-> Command(IntentOpen, f.openSymbol, side, Some(f.openEntry),
                           Some(f.openSL),
                           IF f.openTP > 0 THEN Some(f.openTP) ELSE Nil,
                           Some(f.openRisk), Some(f.openRR), Nil, Nil,
                           validSoFar /\ Len(NormPriceErrors(f, Val(side), validSoFar)) = 0,
                           missing, errors, 0)]

\* buildNormalizedCommand: [err |-> TRUE] for an unknown side text, else the command
buildNormalizedCommand(f) ==
    LET side == ParseSide(f.openSide) IN
    IF IsNil(side) THEN [err |-> TRUE, cmd |-> NoCommand]
    ELSE
      LET missing == NormMissing(f)
          errors == NormRiskErrors(f) \o NormPriceErrors(f, Val(side), NormValidSoFar(f))
      IN  [err |-> FALSE,
           cmd |-> Command(IntentOpen, f.openSymbol, side, Some(f.openEntry),
                           Some(f.openSL),
                           IF f.openTP > 0 THEN Some(f.openTP) ELSE Nil,
                           Some(f.openRisk), Some(f.openRR), Nil, Nil,
                           NormValid(f, Val(side)), missing, errors, 0)]

\* fault: the guard looks at the missing list only
RejectsInvalidMissingOnly(cmd) == ~cmd.Valid /\ Len(cmd.Missing) > 0

\* fault: a command the NLP processor is not confident of is refused
RejectsInvalidOrLowConfidence(cmd) ==
    \/ ~cmd.Valid /\ (Len(cmd.Missing) > 0 \/ Len(cmd.Errors) > 0)
    \/ cmd.Confidence < 50

\* the guard shared by openCmd.RunE and executeNLPCommand: an invalid command is
\* returned as an error when its missing list or its error list is non-empty
RejectsInvalid(cmd) == ~cmd.Valid /\ (Len(cmd.Missing) > 0 \/ Len(cmd.Errors) > 0)

\* ------------------------------------------- executor.go: validatePriceLogic
\* fault: a stop-loss equal to the entry price passes
validatePriceLogicAllowsEqual(side, entry, stopLoss, currentPrice) ==
    IF IsNil(side) THEN [err |-> ErrSideRequired, warned |-> FALSE]
    ELSE IF Val(side) = Long /\ stopLoss > entry THEN [err |-> ErrLongSL, warned |-> FALSE]
    ELSE IF Val(side) = Short /\ stopLoss < entry THEN [err |-> ErrShortSL, warned |-> FALSE]
    ELSE [err |-> "",
          warned |-> \/ (entry - currentPrice) * 100 > DeviationWarnPercent * currentPrice
                     \/ (entry - currentPrice) * 100 < (0 - DeviationWarnPercent) * currentPrice]

\* fault: the price distance is an error, not a warning
validatePriceLogicBlocksOnDeviation(side, entry, stopLoss, currentPrice) ==
    IF IsNil(side) THEN [err |-> ErrSideRequired, warned |-> FALSE]
    ELSE IF Val(side) = Long /\ stopLoss >= entry THEN [err |-> ErrLongSL, warned |-> FALSE]
    ELSE IF Val(side) = Short /\ stopLoss <= entry THEN [err |-> ErrShortSL, warned |-> FALSE]
    ELSE IF \/ (entry - currentPrice) * 100 > DeviationWarnPercent * currentPrice
            \/ (entry - currentPrice) * 100 < (0 - DeviationWarnPercent) * currentPrice
    THEN [err |-> "entry price too far from current price", warned |-> TRUE]
    ELSE [err |-> "", warned |-> FALSE]

\* [err, warned]: the error ("" for nil) and whether the distance warning printed
validatePriceLogic(side, entry, stopLoss, currentPrice) ==
    IF IsNil(side) THEN [err |-> ErrSideRequired, warned |-> FALSE]
    ELSE IF Val(side) = Long /\ stopLoss >= entry THEN [err |-> ErrLongSL, warned |-> FALSE]
    ELSE IF Val(side) = Short /\ stopLoss <= entry THEN [err |-> ErrShortSL, warned |-> FALSE]
    ELSE [err |-> "",
          warned |-> \/ (entry - currentPrice) * 100 > DeviationWarnPercent * currentPrice
                     \/ (entry - currentPrice) * 100 < (0 - DeviationWarnPercent) * currentPrice]

\* brokerSideFromIntent
brokerSideFromIntent(side) == IF side = Long THEN Long ELSE Short

\* ------------------------- strategy-go riskratio: CalculatePosition (planner)
Abs(x) == IF x < 0 THEN 0 - x ELSE x
CeilDiv(n, m) == (n + m - 1) \div m
Clamp(x, lo, hi) == IF x < lo THEN lo ELSE IF x > hi THEN hi ELSE x

PositionParams(sym, side, entry, sl, balance, risk, maxLev) ==
    [Symbol |-> sym, Side |-> side, EntryPrice |-> entry, StopLoss |-> sl,
     AccountBalance |-> balance, RiskPercent |-> risk, MaxLeverage |-> maxLev]

\* size = balance * risk / 100 / |entry - stopLoss|
CalculateSize(balance, risk, entry, sl) == Rat(balance * risk, 100 * Abs(entry - sl))

\* required = ceil(size * entry / balance)
RequiredLeverage(size, entry, balance) == CeilDiv(size.n * entry, size.d * balance)

\* ceil(size * entry / balance) clamped to [1, maxLeverage]
CalculateLeverage(size, entry, balance, maxLev) ==
    Clamp(RequiredLeverage(size, entry, balance), 1, maxLev)

\* the non-fatal signal: required > maxLeverage before clamping
LeverageExceedsMax(size, entry, balance, maxLev) ==
    RequiredLeverage(size, entry, balance) > maxLev

\* fault: the take-profit is set on the stop-loss side of the entry
CalculateRRTakeProfitTowardsStop(side, entry, sl, rr) ==
    IF side = Long THEN entry - rr * Abs(entry - sl) ELSE entry + rr * Abs(entry - sl)

CalculateRRTakeProfit(side, entry, sl, rr) ==
    IF side = Long THEN entry + rr * Abs(entry - sl) ELSE entry - rr * Abs(entry - sl)

CalculatePosition(p, rr) ==
    IF p.EntryPrice = p.StopLoss \/ p.AccountBalance <= 0 \/ p.RiskPercent <= 0
       \/ p.EntryPrice <= 0
    THEN [err |-> TRUE]
    ELSE LET size == CalculateSize(p.AccountBalance, p.RiskPercent, p.EntryPrice, p.StopLoss)
         IN  [err |-> FALSE,
              Symbol |-> p.Symbol, Side |-> p.Side, Size |-> size,
              EntryPrice |-> p.EntryPrice,
              Leverage |-> CalculateLeverage(size, p.EntryPrice, p.AccountBalance, p.MaxLeverage),
              LeverageExceedsMax |-> LeverageExceedsMax(size, p.EntryPrice, p.AccountBalance,
                                                        p.MaxLeverage),
              RiskPercent |-> p.RiskPercent,
              StopLoss |-> Some([Price |-> p.StopLoss]),
              TakeProfits |-> << [Price |-> CalculateRRTakeProfit(p.Side, p.EntryPrice,
                                                                  p.StopLoss, rr)] >>]

\* ---------------------------------------------------- broker.OrderRequest
OrderTypeLimit == "LIMIT"
OrderTypeMarket == "MARKET"
OrderTypeStop == "STOP"
OrderTypeTrailingStop == "TRAILING_STOP"
WorkingTypeMark == "MARK_PRICE"

\* the zero value of every field the code does not set
OrderRequest(sym, side, type, size) ==
    [Symbol |-> sym, Side |-> side, Type |-> type, Size |-> size, Price |-> 0,
     StopPrice |-> 0, ReduceOnly |-> FALSE, StopLoss |-> Nil, TakeProfit |-> Nil,
     Trailing |-> Nil]

\* fault: the stop-loss leg is never attached
buildOrderRequestNoStopLoss(plan) ==
    [OrderRequest(plan.Symbol, plan.Side, OrderTypeLimit, plan.Size) EXCEPT
        !.Price = plan.EntryPrice,
        !.TakeProfit = IF Len(plan.TakeProfits) = 0 THEN Nil
                       ELSE Some([TriggerPrice |-> plan.TakeProfits[1].Price,
                                  OrderPrice |-> plan.TakeProfits[1].Price,
                                  WorkingType |-> WorkingTypeMark])]

\* fault: the take-profit leg is taken from the last level of the plan
buildOrderRequestLastTakeProfit(plan) ==
    [OrderRequest(plan.Symbol, plan.Side, OrderTypeLimit, plan.Size) EXCEPT
        !.Price = plan.EntryPrice,
        !.StopLoss = IF IsNil(plan.StopLoss) THEN Nil
                     ELSE Some([TriggerPrice |-> Val(plan.StopLoss).Price, OrderPrice |-> 0,
                                WorkingType |-> WorkingTypeMark]),
        !.TakeProfit = IF Len(plan.TakeProfits) = 0 THEN Nil
                       ELSE Some([TriggerPrice |->
                                      plan.TakeProfits[Len(plan.TakeProfits)].Price,
                                  OrderPrice |->
                                      plan.TakeProfits[Len(plan.TakeProfits)].Price,
                                  WorkingType |-> WorkingTypeMark])]

\* executor.go: buildOrderRequest
buildOrderRequest(plan) ==
    [OrderRequest(plan.Symbol, plan.Side, OrderTypeLimit, plan.Size) EXCEPT
        !.Price = plan.EntryPrice,
        !.StopLoss = IF IsNil(plan.StopLoss) THEN Nil
                     ELSE Some([TriggerPrice |-> Val(plan.StopLoss).Price, OrderPrice |-> 0,
                                WorkingType |-> WorkingTypeMark]),
        !.TakeProfit = IF Len(plan.TakeProfits) = 0 THEN Nil
                       ELSE Some([TriggerPrice |-> plan.TakeProfits[1].Price,
                                  OrderPrice |-> plan.TakeProfits[1].Price,
                                  WorkingType |-> WorkingTypeMark])]

\* ------------------------------------ executor.go: the per-account loop bodies
\* Each body is what one iteration of `for accountName, brk := range e.brokers`
\* does on the connection with environment e: the broker calls in order, the
\* outcome lines printed, and whether a warning was printed.

\* ExecuteOpenPosition, lines 97-119: what is done with a computed plan
\* fault: the order is placed although SetLeverage failed
OpenPlaceAfterFailedLeverage(sym, plan, e) ==
    LET cLev(ok) == Call("SetLeverage", sym, ok,
                         [side |-> IF plan.Side = Short THEN "SHORT" ELSE "LONG",
                          leverage |-> plan.Leverage])
        cOrd(ok) == Call("PlaceOrder", sym, ok, buildOrderRequest(plan))
    IN
    IF Fails(e, "PlaceOrder", sym)
    THEN Body(<< cLev(~Fails(e, "SetLeverage", sym)), cOrd(FALSE) >>,
              << Result(Failed, "place order") >>, FALSE)
    ELSE Body(<< cLev(~Fails(e, "SetLeverage", sym)), cOrd(TRUE) >>,
              << Result(Succeeded, "order placed") >>, FALSE)

\* fault: the connection is always set to the maximum leverage
OpenPlaceMaxLeverage(sym, plan, e) ==
    LET cLev(ok) == Call("SetLeverage", sym, ok,
                         [side |-> IF plan.Side = Short THEN "SHORT" ELSE "LONG",
                          leverage |-> MaxLeverage])
        cOrd(ok) == Call("PlaceOrder", sym, ok, buildOrderRequest(plan))
    IN
    IF Fails(e, "SetLeverage", sym)
    THEN Body(<< cLev(FALSE) >>, << Result(Failed, "set leverage") >>, FALSE)
    ELSE IF Fails(e, "PlaceOrder", sym)
    THEN Body(<< cLev(TRUE), cOrd(FALSE) >>, << Result(Failed, "place order") >>, FALSE)
    ELSE Body(<< cLev(TRUE), cOrd(TRUE) >>, << Result(Succeeded, "order placed") >>, FALSE)

\* ExecuteOpenPosition, lines 97-119: set the leverage, place the order
OpenPlace(sym, plan, e) ==
    LET cLev(ok) == Call("SetLeverage", sym, ok,
                         [side |-> IF plan.Side = Short THEN "SHORT" ELSE "LONG",
                          leverage |-> plan.Leverage])
        cOrd(ok) == Call("PlaceOrder", sym, ok, buildOrderRequest(plan))
    IN
    IF Fails(e, "SetLeverage", sym)
    THEN Body(<< cLev(FALSE) >>, << Result(Failed, "set leverage") >>, FALSE)
    ELSE IF Fails(e, "PlaceOrder", sym)
    THEN Body(<< cLev(TRUE), cOrd(FALSE) >>, << Result(Failed, "place order") >>, FALSE)
    ELSE Body(<< cLev(TRUE), cOrd(TRUE) >>, << Result(Succeeded, "order placed") >>, FALSE)

\* ExecuteOpenPosition, lines 59-120
OpenBody(cmd, e) ==
    LET cBal(ok) == Call("GetBalance", NoSymbol, ok, NoArg)
        cPrice(ok) == Call("GetCurrentPrice", cmd.Symbol, ok, NoArg)
    IN
    IF Fails(e, "GetBalance", NoSymbol)
    THEN Body(<< cBal(FALSE) >>, << Result(Failed, "get balance") >>, FALSE)
    ELSE IF Fails(e, "GetCurrentPrice", cmd.Symbol)
    THEN Body(<< cBal(TRUE), cPrice(FALSE) >>, << Result(Failed, "get price") >>, FALSE)
    ELSE
      LET v == validatePriceLogic(cmd.Side, Val(cmd.EntryPrice), Val(cmd.StopLoss), e.price)
      IN
      IF v.err # ""
      THEN Body(<< cBal(TRUE), cPrice(TRUE) >>, << Result(Failed, v.err) >>, FALSE)
      ELSE
        LET plan == CalculatePosition(
                        PositionParams(cmd.Symbol, brokerSideFromIntent(Val(cmd.Side)),
                                       Val(cmd.EntryPrice), Val(cmd.StopLoss), e.balance,
                                       Val(cmd.RiskPercent), MaxLeverage),
                        DefaultRR)
        IN
        IF plan.err
        THEN Body(<< cBal(TRUE), cPrice(TRUE) >>,
                  << Result(Failed, "position calculation") >>, v.warned)
        ELSE
          LET b == OpenPlace(cmd.Symbol, plan, e)
          IN  Body(<< cBal(TRUE), cPrice(TRUE) >> \o b.calls, b.results, v.warned)

\* fault: a GetBalance error is swallowed and nothing is reported for the account
BalanceBodySilentOnError(e) ==
    IF Fails(e, "GetBalance", NoSymbol)
    THEN Body(<< Call("GetBalance", NoSymbol, FALSE, NoArg) >>, << >>, FALSE)
    ELSE Body(<< Call("GetBalance", NoSymbol, TRUE, NoArg) >>,
              << Result(Succeeded, "balance") >>, FALSE)

\* ExecuteGetBalance, lines 127-137
BalanceBody(e) ==
    IF Fails(e, "GetBalance", NoSymbol)
    THEN Body(<< Call("GetBalance", NoSymbol, FALSE, NoArg) >>,
              << Result(Failed, "get balance") >>, FALSE)
    ELSE Body(<< Call("GetBalance", NoSymbol, TRUE, NoArg) >>,
              << Result(Succeeded, "balance") >>, FALSE)

\* fault: a GetOrders error fails the account
PositionsBodyFailsWithoutOrders(sym, e) ==
    IF Fails(e, "GetPositions", sym)
    THEN Body(<< Call("GetPositions", sym, FALSE, NoArg) >>,
              << Result(Failed, "get positions") >>, FALSE)
    ELSE IF Fails(e, "GetOrders", sym)
    THEN Body(<< Call("GetPositions", sym, TRUE, NoArg),
                 Call("GetOrders", sym, FALSE, NoArg) >>,
              << Result(Failed, "get orders") >>, FALSE)
    ELSE Body(<< Call("GetPositions", sym, TRUE, NoArg),
                 Call("GetOrders", sym, TRUE, NoArg) >>,
              << Result(Succeeded, "positions table") >>, FALSE)

\* ExecuteGetPositions, lines 149-167: a GetOrders error only empties the orders
PositionsBody(sym, e) ==
    IF Fails(e, "GetPositions", sym)
    THEN Body(<< Call("GetPositions", sym, FALSE, NoArg) >>,
              << Result(Failed, "get positions") >>, FALSE)
    ELSE Body(<< Call("GetPositions", sym, TRUE, NoArg),
                 Call("GetOrders", sym, ~Fails(e, "GetOrders", sym), NoArg) >>,
              << Result(Succeeded,
                        IF Fails(e, "GetOrders", sym) THEN "positions table, no orders"
                        ELSE "positions table") >>, FALSE)

\* ExecuteGetOrders, lines 179-197: a GetPositions error only empties the positions
OrdersBody(sym, e) ==
    IF Fails(e, "GetOrders", sym)
    THEN Body(<< Call("GetOrders", sym, FALSE, NoArg) >>,
              << Result(Failed, "get orders") >>, FALSE)
    ELSE Body(<< Call("GetOrders", sym, TRUE, NoArg),
                 Call("GetPositions", sym, ~Fails(e, "GetPositions", sym), NoArg) >>,
              << Result(Succeeded,
                        IF Fails(e, "GetPositions", sym) THEN "orders table, no positions"
                        ELSE "orders table") >>, FALSE)

\* the inner loop of ExecuteCancelOrders over the account's positions, lines 228-235
RECURSIVE CancelEach(_, _)
CancelEach(ps, e) ==
    IF Len(ps) = 0 THEN Body(<< >>, << >>, FALSE)
    ELSE LET ok == ~Fails(e, "CancelAllOrders", ps[1].Symbol)
             rest == CancelEach(Tail(ps), e)
         IN  Body(<< Call("CancelAllOrders", ps[1].Symbol, ok, NoArg) >> \o rest.calls,
                  << Result(IF ok THEN Succeeded ELSE Failed, ps[1].Symbol) >> \o rest.results,
                  FALSE)

\* ExecuteCancelOrders, lines 204-237
CancelBody(sym, e) ==
    IF sym # NoSymbol
    THEN IF Fails(e, "CancelAllOrders", sym)
         THEN Body(<< Call("CancelAllOrders", sym, FALSE, NoArg) >>,
                   << Result(Failed, "cancel orders") >>, FALSE)
         ELSE Body(<< Call("CancelAllOrders", sym, TRUE, NoArg) >>,
                   << Result(Succeeded, "canceled") >>, FALSE)
    ELSE IF Fails(e, "GetPositions", NoSymbol)
         THEN Body(<< Call("GetPositions", NoSymbol, FALSE, NoArg) >>,
                   << Result(Failed, "get positions") >>, FALSE)
         ELSE LET ps == GetPositions(e, NoSymbol)
                  each == CancelEach(ps, e)
              IN  IF Len(ps) = 0
                  THEN Body(<< Call("GetPositions", NoSymbol, TRUE, NoArg) >>,
                            << Result(Skipped, "no positions") >>, FALSE)
                  ELSE Body(<< Call("GetPositions", NoSymbol, TRUE, NoArg) >> \o each.calls,
                            each.results, FALSE)

\* fault: the percentage is not divided by 100
CloseSizeNoDivide(pos, percentage) ==
    IF percentage > 0 /\ percentage < 100
    THEN RatMul(pos.Size, Rat(percentage, 1))
    ELSE pos.Size

\* fault: the close order is on the position's own side
CloseSideSame(pos) == pos.Side

\* closePosition, lines 294-330: the size to close
CloseSize(pos, percentage) ==
    IF percentage > 0 /\ percentage < 100
    THEN RatMul(pos.Size, Rat(percentage, 100))
    ELSE pos.Size

\* the side of the close order: opposite of the position side
CloseSide(pos) == IF pos.Side = Long THEN Short ELSE Long

CloseRequest(pos, percentage) ==
    [OrderRequest(pos.Symbol, CloseSide(pos), OrderTypeMarket, CloseSize(pos, percentage))
        EXCEPT !.ReduceOnly = TRUE]

closePosition(e, pos, percentage) ==
    LET ok == ~Fails(e, "PlaceOrder", pos.Symbol)
    IN  Body(<< Call("PlaceOrder", pos.Symbol, ok, CloseRequest(pos, percentage)) >>,
             << Result(IF ok THEN Succeeded ELSE Failed, pos.Symbol) >>, FALSE)

\* fault: the inner loop ends at the first close order that fails
CloseEachStopsAtFailure(ps, e, percentage) ==
    LET failing == {i \in 1..Len(ps) : Fails(e, "PlaceOrder", ps[i].Symbol)}
        last == IF failing = {} THEN Len(ps)
                ELSE CHOOSE i \in failing : \A j \in failing : i <= j
        one(i) == closePosition(e, ps[i], percentage)
    IN  Body([i \in 1..last |-> one(i).calls[1]], [i \in 1..last |-> one(i).results[1]],
             FALSE)

\* the inner loop of ExecuteClosePosition over the account's positions, lines 267-271
RECURSIVE CloseEach(_, _, _)
CloseEach(ps, e, percentage) ==
    IF Len(ps) = 0 THEN Body(<< >>, << >>, FALSE)
    ELSE LET one == closePosition(e, ps[1], percentage)
             rest == CloseEach(Tail(ps), e, percentage)
         IN  Body(one.calls \o rest.calls, one.results \o rest.results, FALSE)

\* ExecuteClosePosition, lines 244-288
CloseBody(sym, percentage, e) ==
    IF sym # NoSymbol
    THEN IF Fails(e, "GetPosition", sym)
         THEN Body(<< Call("GetPosition", sym, FALSE, NoArg) >>,
                   << Result(Failed, "get position") >>, FALSE)
         ELSE LET pos == GetPosition(e, sym)
                  get == Call("GetPosition", sym, TRUE, NoArg)
              IN  IF IsNil(pos)
                  THEN Body(<< get >>, << Result(Skipped, "no position") >>, FALSE)
                  ELSE LET one == closePosition(e, Val(pos), percentage)
                       IN  Body(<< get >> \o one.calls, one.results, FALSE)
    ELSE IF Fails(e, "GetPositions", NoSymbol)
         THEN Body(<< Call("GetPositions", NoSymbol, FALSE, NoArg) >>,
                   << Result(Failed, "get positions") >>, FALSE)
         ELSE LET ps == GetPositions(e, NoSymbol)
                  each == CloseEach(ps, e, percentage)
                  get == Call("GetPositions", NoSymbol, TRUE, NoArg)
              IN  IF Len(ps) = 0
                  THEN Body(<< get >>, << Result(Skipped, "no positions") >>, FALSE)
                  ELSE Body(<< get >> \o each.calls, each.results, FALSE)

\* ExecuteTrailingStop, lines 334-378
TrailSide(pos) == IF pos.Side = Short THEN Long ELSE Short

TrailRequest(sym, pos, triggerPrice, callbackRate) ==
    [OrderRequest(sym, TrailSide(pos), OrderTypeTrailingStop, pos.Size) EXCEPT
        !.ReduceOnly = TRUE,
        !.Trailing = Some([ActivationPrice |-> triggerPrice,
                           CallbackRate |-> Rat(callbackRate, 100)])]

\* fault: a missing position is reported as a failure
TrailBodyFailsWithoutPosition(sym, triggerPrice, callbackRate, e) ==
    IF Fails(e, "GetPosition", sym)
    THEN Body(<< Call("GetPosition", sym, FALSE, NoArg) >>,
              << Result(Failed, "get position") >>, FALSE)
    ELSE LET pos == GetPosition(e, sym)
             get == Call("GetPosition", sym, TRUE, NoArg)
         IN  IF IsNil(pos)
             THEN Body(<< get >>, << Result(Failed, "no position") >>, FALSE)
             ELSE LET ok == ~Fails(e, "PlaceOrder", sym)
                      req == TrailRequest(sym, Val(pos), triggerPrice, callbackRate)
                  IN  Body(<< get, Call("PlaceOrder", sym, ok, req) >>,
                           << Result(IF ok THEN Succeeded ELSE Failed, "trailing stop") >>,
                           FALSE)

TrailBody(sym, triggerPrice, callbackRate, e) ==
    IF Fails(e, "GetPosition", sym)
    THEN Body(<< Call("GetPosition", sym, FALSE, NoArg) >>,
              << Result(Failed, "get position") >>, FALSE)
    ELSE LET pos == GetPosition(e, sym)
             get == Call("GetPosition", sym, TRUE, NoArg)
         IN  IF IsNil(pos)
             THEN Body(<< get >>, << Result(Skipped, "no position") >>, FALSE)
             ELSE LET ok == ~Fails(e, "PlaceOrder", sym)
                      req == TrailRequest(sym, Val(pos), triggerPrice, callbackRate)
                  IN  Body(<< get, Call("PlaceOrder", sym, ok, req) >>,
                           << Result(IF ok THEN Succeeded ELSE Failed, "trailing stop") >>,
                           FALSE)

\* ExecuteBreakEven, lines 385-431
StopSide(pos) == IF pos.Side = Short THEN Long ELSE Short

BreakEvenRequest(sym, pos) ==
    [OrderRequest(sym, StopSide(pos), OrderTypeStop, pos.Size) EXCEPT
        !.StopPrice = pos.EntryPrice, !.ReduceOnly = TRUE]

\* fault: the stop is placed whether or not the cancellation succeeded
BreakEvenBodyPlacesAfterFailedCancel(sym, e) ==
    IF Fails(e, "GetPosition", sym)
    THEN Body(<< Call("GetPosition", sym, FALSE, NoArg) >>,
              << Result(Failed, "get position") >>, FALSE)
    ELSE LET pos == GetPosition(e, sym)
             get == Call("GetPosition", sym, TRUE, NoArg)
         IN  IF IsNil(pos)
             THEN Body(<< get >>, << Result(Skipped, "no position") >>, FALSE)
             ELSE LET ok == ~Fails(e, "PlaceOrder", sym)
                  IN  Body(<< get,
                              Call("CancelAllOrders", sym, ~Fails(e, "CancelAllOrders", sym),
                                   NoArg),
                              Call("PlaceOrder", sym, ok, BreakEvenRequest(sym, Val(pos))) >>,
                           << Result(IF ok THEN Succeeded ELSE Failed, "break even stop") >>,
                           FALSE)

\* ExecuteBreakEven, lines 385-430: the loop body on one account
BreakEvenBody(sym, e) ==
    IF Fails(e, "GetPosition", sym)
    THEN Body(<< Call("GetPosition", sym, FALSE, NoArg) >>,
              << Result(Failed, "get position") >>, FALSE)
    ELSE LET pos == GetPosition(e, sym)
             get == Call("GetPosition", sym, TRUE, NoArg)
         IN  IF IsNil(pos)
             THEN Body(<< get >>, << Result(Skipped, "no position") >>, FALSE)
             ELSE IF Fails(e, "CancelAllOrders", sym)
             THEN Body(<< get, Call("CancelAllOrders", sym, FALSE, NoArg) >>,
                       << Result(Failed, "cancel existing orders") >>, FALSE)
             ELSE LET ok == ~Fails(e, "PlaceOrder", sym)
                  IN  Body(<< get, Call("CancelAllOrders", sym, TRUE, NoArg),
                              Call("PlaceOrder", sym, ok, BreakEvenRequest(sym, Val(pos))) >>,
                           << Result(IF ok THEN Succeeded ELSE Failed, "break even stop") >>,
                           FALSE)

\* ------------------------------------------------------ inputs of a run
\* flag values of `open`
OpenFlagSets ==
    {OpenFlags(sym, side, entry, sl, risk, rr, tp) :
        sym \in {"", "ETH-USDT"}, side \in {"long", "corto", "buy"},
        entry \in {0, 100}, sl \in {90, 110}, risk \in {0, 2, 101},
        rr \in {DefaultRR, 3}, tp \in {0, 130}}

\* flag values of `close` (--percent), `trail` (--trigger, --callback)
ClosePercents == {0 - 1, 0, 50, 100, 101}
SymbolFlags == {NoSymbol, "ETH-USDT"}
TrailTriggers == {0, 120}
TrailCallbacks == {0, 1, 5, 6}

\* what the NLP processor hands to chat mode: a command is Valid iff its missing
\* and error lists are empty, and a Valid open command carries every required field
Confidences == {0, 90}

NLPOpen(side, sl, conf) ==
    Command(IntentOpen, "ETH-USDT", Some(side), Some(100), Some(sl), Nil, Some(2), Nil,
            Nil, Nil, TRUE, << >>, << >>, conf)

NLPPlain(intent, sym, trig, cb) ==
    Command(intent, sym, Nil, Nil, Nil, Nil, Nil, Nil, trig, cb, TRUE, << >>, << >>, 90)

NLPOutputs ==
    {NLPOpen(Long, 90, c) : c \in Confidences}
    \cup {NLPOpen(Short, 110, c) : c \in Confidences}
    \cup {[NLPOpen(Long, 90, c) EXCEPT !.StopLoss = Nil, !.Valid = FALSE,
                                       !.Missing = << "stop_loss" >>] : c \in Confidences}
    \cup {[NLPOpen(Long, 110, c) EXCEPT !.Valid = FALSE, !.Errors = << ErrLongSL >>] :
             c \in Confidences}
    \cup {NLPPlain(i, sym, Nil, Nil) :
             i \in {IntentClose, IntentViewPositions, IntentViewOrders, IntentCancel,
                    IntentBalance, IntentBreakEven, IntentUnknown},
             sym \in SymbolFlags}
    \cup {[NLPPlain(IntentClose, NoSymbol, Nil, Nil) EXCEPT !.Valid = FALSE,
                                                         !.Missing = << "symbol" >>]}
    \cup {NLPPlain(IntentTrail, "ETH-USDT", Some(120), Some(1)),
          NLPPlain(IntentTrail, "ETH-USDT", Nil, Some(1)),
          NLPPlain(IntentTrail, "ETH-USDT", Some(120), Some(6)),
          NLPPlain(IntentTrail, "ETH-USDT", Some(0), Some(1)),
          NLPPlain(IntentTrail, NoSymbol, Some(120), Some(1))}

\* the failures and data a connection is given for each operation: `fails` are
\* the (call kind, symbol) failures, tried on each of `positions`; the balance
\* and the price vary on the connections that do not fail
EnvsOf(fails, balances, prices, positions) ==
    {BrokerEnv(NoFail, AnySymbol, b, p, ps) :
        b \in balances, p \in prices, ps \in positions}
    \cup {BrokerEnv(f[1], f[2], 1000, 98, ps) : f \in fails, ps \in positions}

ClosePositionLists == { << >>, << PosEthShort >>, << PosEthLong, PosBtcShort >> }

EnvsFor(kind) ==
    CASE kind = "open" ->
            EnvsOf({<< "GetBalance", AnySymbol >>, << "GetCurrentPrice", AnySymbol >>,
                    << "SetLeverage", AnySymbol >>, << "PlaceOrder", AnySymbol >>},
                   Balances, Prices, {<< >>})
      [] kind = "balance" ->
            EnvsOf({<< "GetBalance", AnySymbol >>}, {1000}, {98}, {<< >>})
      [] kind \in {"positions", "orders"} ->
            EnvsOf({<< "GetPositions", AnySymbol >>, << "GetOrders", AnySymbol >>},
                   {1000}, {98}, {<< >>, << PosEthLong >>})
      [] kind = "cancel" ->
            EnvsOf({<< "GetPositions", AnySymbol >>, << "CancelAllOrders", AnySymbol >>,
                    << "CancelAllOrders", "ETH-USDT" >>},
                   {1000}, {98}, ClosePositionLists)
      [] kind = "close" ->
            EnvsOf({<< "GetPosition", AnySymbol >>, << "GetPositions", AnySymbol >>,
                    << "PlaceOrder", AnySymbol >>, << "PlaceOrder", "ETH-USDT" >>},
                   {1000}, {98}, ClosePositionLists)
      [] kind = "trail" ->
            EnvsOf({<< "GetPosition", AnySymbol >>, << "PlaceOrder", AnySymbol >>},
                   {1000}, {98}, PositionLists)
      [] kind = "breakeven" ->
            EnvsOf({<< "GetPosition", AnySymbol >>, << "CancelAllOrders", AnySymbol >>,
                    << "PlaceOrder", AnySymbol >>},
                   {1000}, {98}, PositionLists)

\* ------------------------------------------------------------------ state
VARIABLES
    demoMode,   \* root.go: the --demo flag
    accounts,   \* config.Config.Accounts, as loaded from the file
    phase,      \* "boot", "ready", "running", "done"
    brokers,    \* Executor.brokers: account name -> client (entry that built it)
    op,         \* the operation invoked and its arguments
    env,        \* per connection, what the exchange answers in this invocation
    todo,       \* account names the range loop has not visited yet
    calls,      \* per connection, the broker calls made, in order
    results,    \* per connection, the outcome lines reported, in order
    warnings,   \* per connection, whether the price distance warning printed
    visited,    \* account names in the order the loop visited them
    ret,        \* the error the command returned, "nil", or "none" while running
    ref,        \* the recorded first run, while the same invocation is repeated
                \* with no connection failing
    plan,       \* a strategy.PositionPlan handed to the order builder
    orderReq,   \* the request buildOrderRequest returned for it
    planCalls,  \* the broker calls ExecuteOpenPosition made for it on one account
    watch,      \* the watch command running: its operation, loop variant, interval
    wpc,        \* where the watch handler is
    sigChan,    \* whether a signal is buffered in sigChan (capacity 1)
    tickC,      \* whether a tick is buffered in ticker.C (capacity 1)
    screen,     \* what the terminal shows
    passes,     \* refresh passes started by the watch loop
    params,     \* the strategy.PositionParams and ratio a plan is computed from
    flags,      \* open.go: the package-level flag variables openSymbol, ...
    normalized, \* what buildNormalizedCommand returned
    again,      \* what a second call of buildNormalizedCommand returned
    priceLogic, \* what the executor's validatePriceLogic said of the command
    capture,    \* the capture helper running: the pass it wraps and its output
    cappc,      \* where the capture helper is
    stdout,     \* what os.Stdout points to
    pipe,       \* output sitting in the pipe, written and not read
    written,    \* output the wrapped function has written so far
    buf,        \* what io.Copy collected from the pipe
    stdin,      \* chat: the lines not read yet from standard input
    chatpc,     \* chat: where the loop is
    chatEnd,    \* chat: what made the loop end
    chatLog     \* chat: what was done with each line read

planVars == << params, plan, orderReq, planCalls >>
normVars == << flags, normalized, again, priceLogic >>
capVars == << capture, cappc, stdout, pipe, written, buf >>
chatVars == << stdin, chatpc, chatEnd, chatLog >>
watchVars == << watch, wpc, sigChan, tickC, screen, passes >>

execVars == << demoMode, accounts, phase, brokers, op, env, todo, calls, results,
              warnings, visited, ret, ref >>
vars == << execVars, planVars, watchVars, normVars, capVars, chatVars >>

Op(kind, cmd, sym, percentage, trigger, callback) ==
    [kind |-> kind, cmd |-> cmd, symbol |-> sym, percentage |-> percentage,
     trigger |-> trigger, callback |-> callback, market |-> FALSE]

NoPlan == [err |-> TRUE]
NoParams == [none |-> TRUE]
NoFlags == [none |-> TRUE]
NoWatch == [kind |-> "none", variant |-> "none", refresh |-> 0]
Blank == << >>
NoOp == Op("none", NoCommand, NoSymbol, FullPercent, 0, 0)
NoRef == [active |-> FALSE, env |-> << >>, calls |-> << >>, results |-> << >>]

\* the executor before PersistentPreRunE has run
ExecInit ==
    /\ demoMode \in BOOLEAN
    /\ accounts \in Configs
    /\ phase = "boot"
    /\ brokers = << >>
    /\ op = NoOp
    /\ env = << >>
    /\ todo = {}
    /\ calls = << >>
    /\ results = << >>
    /\ warnings = << >>
    /\ visited = << >>
    /\ ret = "none"
    /\ ref = NoRef

\* no plan is being built
PlanIdle ==
    /\ params = NoParams
    /\ plan = NoPlan
    /\ orderReq = Nil
    /\ planCalls = << >>

\* no watch command is running
WatchIdle ==
    /\ watch = NoWatch
    /\ wpc = "off"
    /\ sigChan = FALSE
    /\ tickC = FALSE
    /\ screen = Blank
    /\ passes = 0

\* open's flags are not being normalized on their own
NormIdle ==
    /\ flags = NoFlags
    /\ normalized = Nil
    /\ again = Nil
    /\ priceLogic = Nil

NoCapture == [kind |-> "none", out |-> 0, err |-> FALSE]

\* no capture helper is running: os.Stdout is the terminal
CaptureIdle ==
    /\ capture = NoCapture
    /\ cappc = "off"
    /\ stdout = "terminal"
    /\ pipe = 0
    /\ written = 0
    /\ buf = Nil

\* no chat session is running
ChatIdle ==
    /\ stdin = << >>
    /\ chatpc = "off"
    /\ chatEnd = "none"
    /\ chatLog = << >>

Init == ExecInit /\ PlanIdle /\ WatchIdle /\ NormIdle /\ CaptureIdle /\ ChatIdle

\* ------------------------------------------- root.go: PersistentPreRunE
PersistentPreRunE ==
    /\ phase = "boot"
    /\ IF ~ConfigValidate(accounts)
       THEN /\ phase' = "done"
            /\ ret' = "failed to load config"
            /\ UNCHANGED << brokers, env, calls, results, warnings >>
       ELSE IF ~NewSupported(accounts)
       THEN /\ phase' = "done"
            /\ ret' = "failed to initialize executor"
            /\ UNCHANGED << brokers, env, calls, results, warnings >>
       ELSE /\ phase' = "ready"
            /\ ret' = "none"
            /\ brokers' = NewBrokers(accounts, demoMode)
            /\ env' = [n \in DOMAIN NewBrokers(accounts, demoMode) |-> DefaultEnv]
            /\ calls' = [n \in DOMAIN NewBrokers(accounts, demoMode) |-> << >>]
            /\ results' = [n \in DOMAIN NewBrokers(accounts, demoMode) |-> << >>]
            /\ warnings' = [n \in DOMAIN NewBrokers(accounts, demoMode) |-> FALSE]
    /\ UNCHANGED << capVars, chatVars, normVars, planVars, watchVars, demoMode, accounts, op, todo, visited, ref >>

\* ---------------------------------------------------- command handlers
\* the handler returns err before any Execute* call
ReturnError(o, err) ==
    /\ phase' = "done"
    /\ op' = o
    /\ ret' = err
    /\ UNCHANGED << capVars, chatVars, normVars, planVars, watchVars, demoMode, accounts, brokers, env, todo, calls, results, warnings, visited, ref >>

\* the handler calls the Execute* operation of o.kind: the range loop starts
StartBatch(o, e) ==
    /\ phase' = "running"
    /\ op' = o
    /\ env' = e
    /\ todo' = DOMAIN brokers
    /\ ret' = "none"
    /\ UNCHANGED << capVars, chatVars, normVars, planVars, watchVars, demoMode, accounts, brokers, calls, results, warnings, visited, ref >>

Execute(o) == \E e \in [DOMAIN brokers -> EnvsFor(o.kind)] : StartBatch(o, e)

Strategies == {"riskratio"}

\* ExecuteOpenPosition, lines 52-56: the strategy lookup before the loop
ExecuteOpenPosition(cmd, strategyName) ==
    LET o == Op("open", cmd, cmd.Symbol, FullPercent, 0, 0) IN
    IF strategyName \notin Strategies
    THEN ReturnError(o, "strategy not found")
    ELSE Execute(o)

\* open.go: openCmd.RunE
\* the flags init() registers on openCmd: cobra refuses any other flag before
\* RunE runs
OpenFlagNames == {"symbol", "side", "entry", "sl", "risk", "rr", "tp"}

\* command lines of `open`: the registered flags, with or without --market
OpenExtraFlags == {{}, {"market"}}

openCmd ==
    /\ phase = "ready"
    /\ \E f \in OpenFlagSets, extra \in OpenExtraFlags :
          LET b == buildNormalizedCommand(f) IN
          IF ~(extra \subseteq OpenFlagNames)
          THEN ReturnError([Op("open", NoCommand, f.openSymbol, FullPercent, 0, 0)
                               EXCEPT !.market = "market" \in extra],
                           "unknown flag")
          ELSE IF b.err
          THEN ReturnError(Op("open", [NoCommand EXCEPT !.Valid = FALSE], f.openSymbol,
                              FullPercent, 0, 0), "invalid parameters")
          ELSE IF RejectsInvalid(b.cmd)
          THEN ReturnError(Op("open", b.cmd, f.openSymbol, FullPercent, 0, 0),
                           IF Len(b.cmd.Missing) > 0 THEN "missing required parameters"
                           ELSE "validation errors")
          ELSE ExecuteOpenPosition(b.cmd, "riskratio")

\* balance.go, positions.go, orders.go, cancel.go: no validation
balanceCmd ==
    /\ phase = "ready"
    /\ Execute(Op("balance", NoCommand, NoSymbol, FullPercent, 0, 0))

positionsCmd ==
    /\ phase = "ready"
    /\ \E sym \in SymbolFlags : Execute(Op("positions", NoCommand, sym, FullPercent, 0, 0))

ordersCmd ==
    /\ phase = "ready"
    /\ \E sym \in SymbolFlags : Execute(Op("orders", NoCommand, sym, FullPercent, 0, 0))

cancelCmd ==
    /\ phase = "ready"
    /\ \E sym \in SymbolFlags : Execute(Op("cancel", NoCommand, sym, FullPercent, 0, 0))

\* close.go: closeCmd.RunE
closeCmd ==
    /\ phase = "ready"
    /\ \E sym \in SymbolFlags, pct \in ClosePercents :
          LET o == Op("close", NoCommand, sym, pct, 0, 0) IN
          IF pct < 0 \/ pct > 100
          THEN ReturnError(o, "percentage must be between 0 and 100")
          ELSE Execute(o)

\* trail.go: trailCmd.RunE
trailCmd ==
    /\ phase = "ready"
    /\ \E sym \in SymbolFlags, trig \in TrailTriggers, cb \in TrailCallbacks :
          LET o == Op("trail", NoCommand, sym, FullPercent, trig, cb) IN
          IF sym = ""
          THEN ReturnError(o, "symbol is required")
          ELSE IF trig <= 0
          THEN ReturnError(o, "trigger price must be positive")
          ELSE IF cb <= 0 \/ cb > 5
          THEN ReturnError(o, "callback rate must be between 0 and 5%")
          ELSE Execute(o)

\* breakeven.go: breakevenCmd.RunE
breakevenCmd ==
    /\ phase = "ready"
    /\ \E sym \in SymbolFlags :
          LET o == Op("breakeven", NoCommand, sym, FullPercent, 0, 0) IN
          IF sym = ""
          THEN ReturnError(o, "symbol is required")
          ELSE Execute(o)

\* chat.go: executeNLPCommand on one parsed command
NLPOp(kind, cmd) == Op(kind, cmd, cmd.Symbol, FullPercent, 0, 0)

executeNLPCommand ==
    /\ phase = "ready"
    /\ \E cmd \in NLPOutputs :
          IF RejectsInvalid(cmd)
          THEN ReturnError(NLPOp("chat", cmd),
                           IF Len(cmd.Missing) > 0 THEN "missing parameters"
                           ELSE "validation errors")
          ELSE IF cmd.Intent = IntentOpen THEN ExecuteOpenPosition(cmd, "riskratio")
          ELSE IF cmd.Intent = IntentClose THEN Execute(NLPOp("close", cmd))
          ELSE IF cmd.Intent = IntentViewPositions THEN Execute(NLPOp("positions", cmd))
          ELSE IF cmd.Intent = IntentViewOrders THEN Execute(NLPOp("orders", cmd))
          ELSE IF cmd.Intent = IntentCancel THEN Execute(NLPOp("cancel", cmd))
          ELSE IF cmd.Intent = IntentBalance THEN Execute(NLPOp("balance", cmd))
          ELSE IF cmd.Intent = IntentTrail
          THEN IF IsNil(cmd.TriggerPrice) \/ IsNil(cmd.CallbackRate)
               THEN ReturnError(NLPOp("trail", cmd),
                                "trailing stop requires trigger price and callback rate")
               ELSE Execute(Op("trail", cmd, cmd.Symbol, FullPercent,
                               Val(cmd.TriggerPrice), Val(cmd.CallbackRate)))
          ELSE IF cmd.Intent = IntentBreakEven THEN Execute(NLPOp("breakeven", cmd))
          ELSE ReturnError(NLPOp("chat", cmd), "unknown intent")

\* ------------------------------------- executor.go: the range loops
\* fault: `return` in place of `continue`, a failed account ends the batch
IterateAbortOnFailure(a, b) ==
    /\ todo' = IF \E i \in 1..Len(b.results) : b.results[i].outcome = "failed"
               THEN {} ELSE todo \ {a}
    /\ calls' = [calls EXCEPT ![a] = @ \o b.calls]
    /\ results' = [results EXCEPT ![a] = @ \o b.results]
    /\ warnings' = [warnings EXCEPT ![a] = @ \/ b.warned]
    /\ visited' = Append(visited, a)
    /\ UNCHANGED << capVars, chatVars, normVars, planVars, watchVars, demoMode, accounts, phase, brokers, op, env, ret, ref >>

\* one iteration of `for accountName, brk := range e.brokers` on account a (Go
\* ranges over a map in no fixed order) with the loop body's effects b
Iterate(a, b) ==
    /\ todo' = todo \ {a}
    /\ calls' = [calls EXCEPT ![a] = @ \o b.calls]
    /\ results' = [results EXCEPT ![a] = @ \o b.results]
    /\ warnings' = [warnings EXCEPT ![a] = @ \/ b.warned]
    /\ visited' = Append(visited, a)
    /\ UNCHANGED << capVars, chatVars, normVars, planVars, watchVars, demoMode, accounts, phase, brokers, op, env, ret, ref >>

Looping(kind) == phase = "running" /\ op.kind = kind

OpenAccount == Looping("open") /\ \E a \in todo : Iterate(a, OpenBody(op.cmd, env[a]))

BalanceAccount == Looping("balance") /\ \E a \in todo : Iterate(a, BalanceBody(env[a]))

PositionsAccount ==
    Looping("positions") /\ \E a \in todo : Iterate(a, PositionsBody(op.symbol, env[a]))

OrdersAccount ==
    Looping("orders") /\ \E a \in todo : Iterate(a, OrdersBody(op.symbol, env[a]))

CancelAccount ==
    Looping("cancel") /\ \E a \in todo : Iterate(a, CancelBody(op.symbol, env[a]))

CloseAccount ==
    Looping("close") /\ \E a \in todo :
        Iterate(a, CloseBody(op.symbol, op.percentage, env[a]))

TrailAccount ==
    Looping("trail") /\ \E a \in todo :
        Iterate(a, TrailBody(op.symbol, op.trigger, op.callback, env[a]))

BreakEvenAccount ==
    Looping("breakeven") /\ \E a \in todo : Iterate(a, BreakEvenBody(op.symbol, env[a]))

\* the loop is over: every Execute* operation returns nil
ReturnNil ==
    /\ phase = "running"
    /\ todo = {}
    /\ phase' = "done"
    /\ ret' = "nil"
    /\ UNCHANGED << capVars, chatVars, normVars, planVars, watchVars, demoMode, accounts, brokers, op, env, todo, calls, results, warnings, visited, ref >>

\* the same invocation on the same exchange data with every connection's
\* failure removed: the run a partially failing run is compared with
ReferenceRun ==
    /\ phase = "done"
    /\ ret = "nil"
    /\ ~ref.active
    /\ \E a \in DOMAIN brokers : env[a].fail # NoFail
    /\ ref' = [active |-> TRUE, env |-> env, calls |-> calls, results |-> results]
    /\ env' = [a \in DOMAIN brokers |-> [env[a] EXCEPT !.fail = NoFail]]
    /\ phase' = "running"
    /\ todo' = DOMAIN brokers
    /\ calls' = [a \in DOMAIN brokers |-> << >>]
    /\ results' = [a \in DOMAIN brokers |-> << >>]
    /\ warnings' = [a \in DOMAIN brokers |-> FALSE]
    /\ visited' = << >>
    /\ ret' = "none"
    /\ UNCHANGED << capVars, chatVars, normVars, planVars, watchVars, demoMode, accounts, brokers, op >>

Next ==
    \/ PersistentPreRunE
    \/ openCmd
    \/ balanceCmd
    \/ positionsCmd
    \/ ordersCmd
    \/ cancelCmd
    \/ closeCmd
    \/ trailCmd
    \/ breakevenCmd
    \/ executeNLPCommand
    \/ OpenAccount
    \/ BalanceAccount
    \/ PositionsAccount
    \/ OrdersAccount
    \/ CancelAccount
    \/ CloseAccount
    \/ TrailAccount
    \/ BreakEvenAccount
    \/ ReturnNil
    \/ ReferenceRun

Spec == Init /\ [][Next]_vars

\* --------------------------- the order builder on plans of every shape
\* strategy.PositionPlan values: with and without a stop-loss, with no, one or
\* several take-profit levels
MaxTakeProfits == 2

TakeProfitLevels == {[Price |-> 120], [Price |-> 130]}

TakeProfitLists == UNION {[1..k -> TakeProfitLevels] : k \in 0..MaxTakeProfits}

Plans ==
    {[err |-> FALSE, Symbol |-> sym, Side |-> side, Size |-> size, EntryPrice |-> entry,
      Leverage |-> 3, RiskPercent |-> 2, StopLoss |-> sl, TakeProfits |-> tps] :
        sym \in Symbols, side \in Sides, size \in {Rat(1, 10), Rat(2, 1)},
        entry \in {100, 105}, sl \in {Nil, Some([Price |-> 90]), Some([Price |-> 110])},
        tps \in TakeProfitLists}

PlanEnvs ==
    EnvsOf({<< "SetLeverage", AnySymbol >>, << "PlaceOrder", AnySymbol >>},
           {1000}, {98}, {<< >>})

\* the entry and stop-loss prices of the planner's inputs
PlanPrices ==
    {<< 45000, 44500 >>, << 3950, 3900 >>, << 50000, 51000 >>, << 100, 50 >>,
     << 500, 499 >>, << 504, 505 >>, << 100, 100 >>}

\* ratios a riskratio strategy is built with
RRRatios == {1, DefaultRR, 3}

\* the strategy.PositionParams ExecuteOpenPosition hands to the planner, and
\* the ratio of the strategy
ParamSets ==
    {[p |-> PositionParams("BTC-USDT", side, pr[1], pr[2], balance, risk, MaxLeverage),
      rr |-> rr] :
        side \in Sides, pr \in PlanPrices, balance \in Balances, risk \in {2, 25},
        rr \in RRRatios}

\* either a plan of some shape is in hand, or the planner is about to be called
PlanInit ==
    /\ ExecInit /\ ~demoMode /\ accounts = << >>
    /\ WatchIdle /\ NormIdle /\ CaptureIdle /\ ChatIdle
    /\ \/ params = NoParams /\ plan \in Plans
       \/ params \in ParamSets /\ plan = NoPlan
    /\ orderReq = Nil
    /\ planCalls = << >>

\* ExecuteOpenPosition lines 83-91: plan, err := strat.CalculatePosition(...)
CalculatePlan ==
    /\ params # NoParams
    /\ plan = NoPlan
    /\ plan' = CalculatePosition(params.p, params.rr)
    /\ UNCHANGED << capVars, chatVars, normVars, execVars, watchVars, params, orderReq, planCalls >>

\* ExecuteOpenPosition line 112: orderReq := buildOrderRequest(plan)
BuildOrderRequest ==
    /\ plan # NoPlan
    /\ orderReq = Nil
    /\ orderReq' = Some(buildOrderRequest(plan))
    /\ UNCHANGED << capVars, chatVars, normVars, execVars, watchVars, params, plan, planCalls >>

\* ExecuteOpenPosition lines 97-119 on one account, for the plan
PlaceForPlan ==
    /\ plan # NoPlan
    /\ planCalls = << >>
    /\ \E e \in PlanEnvs : planCalls' = OpenPlace(plan.Symbol, plan, e).calls
    /\ UNCHANGED << capVars, chatVars, normVars, execVars, watchVars, params, plan, orderReq >>

PlanNext ==
    \/ CalculatePlan
    \/ BuildOrderRequest
    \/ PlaceForPlan

PlanSpec == PlanInit /\ [][PlanNext]_vars

\* ------------- the normalizer of open.go on flag values of every shape
NormFlagSets ==
    {OpenFlags(sym, side, entry, sl, risk, DefaultRR, tp) :
        sym \in {"", "ETH-USDT"},
        side \in {"long", "LONG", "largo", "short", "SHORT", "corto", "buy", ""},
        entry \in {0, 100}, sl \in {0, 90, 100, 110}, risk \in {0, 1, 100, 101},
        tp \in {0, 130}}

NormInit ==
    /\ ExecInit /\ ~demoMode /\ accounts = << >>
    /\ PlanIdle /\ WatchIdle /\ CaptureIdle /\ ChatIdle
    /\ flags \in NormFlagSets
    /\ normalized = Nil
    /\ again = Nil
    /\ priceLogic = Nil

\* fault: the normalizer zeroes the take-profit flag it has read
NormalizeClearsTakeProfit ==
    /\ normalized = Nil
    /\ normalized' = Some(buildNormalizedCommand(flags))
    /\ flags' = [flags EXCEPT !.openTP = 0]
    /\ UNCHANGED << capVars, chatVars, execVars, planVars, watchVars, again, priceLogic >>

\* openCmd.RunE line 91: command, err := buildNormalizedCommand(); the function
\* reads the flag variables and assigns none of them
Normalize ==
    /\ normalized = Nil
    /\ normalized' = Some(buildNormalizedCommand(flags))
    /\ UNCHANGED << capVars, chatVars, execVars, planVars, watchVars, flags, again, priceLogic >>

\* buildNormalizedCommand called once more on the flag variables as they are
NormalizeAgain ==
    /\ normalized # Nil
    /\ again = Nil
    /\ again' = Some(buildNormalizedCommand(flags))
    /\ UNCHANGED << capVars, chatVars, execVars, planVars, watchVars, flags, normalized, priceLogic >>

\* ExecuteOpenPosition line 77: validatePriceLogic on the command's side, entry
\* and stop-loss, at some market price
ValidatePriceLogic ==
    /\ normalized # Nil
    /\ ~Val(normalized).err
    /\ priceLogic = Nil
    /\ \E currentPrice \in Prices :
          LET cmd == Val(normalized).cmd IN
          priceLogic' = Some(validatePriceLogic(cmd.Side, Val(cmd.EntryPrice),
                                                Val(cmd.StopLoss), currentPrice))
    /\ UNCHANGED << capVars, chatVars, execVars, planVars, watchVars, flags, normalized, again >>

NormNext ==
    \/ Normalize
    \/ NormalizeAgain
    \/ ValidatePriceLogic

NormSpec == NormInit /\ [][NormNext]_vars

\* ------------- watch mode: positions.go, orders.go, balance.go with --watch
\* The handlers exist in two variants: "ticker" creates a time.NewTicker before
\* the first pass and prints each pass straight to the terminal; "after" waits
\* on a fresh time.After in every select and captures the output of a refresh
\* pass before showing it.
MaxPasses == 2

WatchKinds == {"positions", "orders", "balance"}
WatchVariants == {"ticker", "after"}
RefreshFlags == {0, 5}

\* the pass prints straight to the terminal: the initial display, and every
\* pass of the ticker variant
PrintsDirectly(initial) == initial \/ watch.variant = "ticker"

\* RunE with --watch, up to signal.Notify and time.NewTicker
watchCmd ==
    /\ phase = "ready"
    /\ wpc = "off"
    /\ \E k \in WatchKinds, v \in WatchVariants, r \in RefreshFlags :
          /\ watch' = [kind |-> k, variant |-> v, refresh |-> r]
          /\ IF r < 1
             THEN /\ phase' = "done"
                  /\ ret' = "refresh interval must be at least 1 second"
                  /\ wpc' = "off"
             ELSE /\ wpc' = "init"
                  /\ UNCHANGED << phase, ret >>
    /\ UNCHANGED << capVars, chatVars, normVars, planVars, demoMode, accounts, brokers, op, env, todo, calls, results,
                    warnings, visited, ref, sigChan, tickC, screen, passes >>

\* the handler calls Execute*: the initial display, or a refresh after a tick.
\* clearScreen() comes first when the pass prints straight to the terminal.
WatchStartPass ==
    /\ wpc \in {"init", "tickcase"}
    /\ wpc = "tickcase" => passes < MaxPasses
    /\ \E e \in [DOMAIN brokers -> EnvsFor(watch.kind)] : env' = e
    /\ phase' = "running"
    /\ op' = Op(watch.kind, NoCommand, NoSymbol, FullPercent, 0, 0)
    /\ todo' = DOMAIN brokers
    /\ calls' = [a \in DOMAIN brokers |-> << >>]
    /\ results' = [a \in DOMAIN brokers |-> << >>]
    /\ warnings' = [a \in DOMAIN brokers |-> FALSE]
    /\ visited' = << >>
    /\ passes' = IF wpc = "init" THEN 0 ELSE passes + 1
    /\ screen' = IF PrintsDirectly(wpc = "init") THEN Blank ELSE screen
    /\ wpc' = "pass"
    /\ UNCHANGED << capVars, chatVars, normVars, planVars, demoMode, accounts, brokers, ret, ref, watch, sigChan, tickC >>

\* Execute* returned nil: the pass is shown.  A captured pass is shown only
\* when it printed something.
WatchPassDone ==
    /\ wpc = "pass"
    /\ phase = "running"
    /\ todo = {}
    /\ phase' = "ready"
    /\ screen' = IF PrintsDirectly(passes = 0) \/ DOMAIN brokers # {} THEN results ELSE screen
    /\ wpc' = "select"
    /\ UNCHANGED << capVars, chatVars, normVars, planVars, demoMode, accounts, brokers, op, env, todo, calls, results,
                    warnings, visited, ret, ref, watch, sigChan, tickC, passes >>

\* select finds a signal buffered in sigChan (with a tick buffered as well, Go
\* picks either case)
WatchSelectSignal ==
    /\ wpc = "select"
    /\ sigChan
    /\ sigChan' = FALSE
    /\ wpc' = "sigcase"
    /\ UNCHANGED << capVars, chatVars, normVars, planVars, execVars, watch, tickC, screen, passes >>

\* select finds a tick buffered in ticker.C
WatchSelectTick ==
    /\ wpc = "select"
    /\ tickC
    /\ tickC' = FALSE
    /\ wpc' = "tickcase"
    /\ UNCHANGED << capVars, chatVars, normVars, planVars, execVars, watch, sigChan, screen, passes >>

\* no case is ready: the goroutine blocks in select
WatchSelectBlock ==
    /\ wpc = "select"
    /\ ~sigChan
    /\ ~tickC
    /\ wpc' = "blocked"
    /\ UNCHANGED << capVars, chatVars, normVars, planVars, execVars, watch, sigChan, tickC, screen, passes >>

\* fault: the signal ends the handler wherever it is
WatchSignalInterrupts ==
    /\ wpc \in {"init", "pass", "select", "blocked", "tickcase"}
    /\ wpc' = "sigcase"
    /\ UNCHANGED << capVars, chatVars, normVars, planVars, execVars, watch, sigChan, tickC, screen, passes >>

\* SIGINT or SIGTERM after signal.Notify: handed to a goroutine blocked in
\* select, else buffered in sigChan (dropped when the buffer is full)
WatchSignal ==
    /\ wpc \in {"init", "pass", "select", "blocked", "tickcase"}
    /\ wpc = "blocked" \/ ~sigChan
    /\ IF wpc = "blocked"
       THEN wpc' = "sigcase" /\ UNCHANGED sigChan
       ELSE sigChan' = TRUE /\ UNCHANGED wpc
    /\ UNCHANGED << capVars, chatVars, normVars, planVars, execVars, watch, tickC, screen, passes >>

\* the ticker fires, whatever the handler is doing: handed to a goroutine
\* blocked in select, else buffered in ticker.C (dropped when the buffer is full)
WatchTick ==
    /\ watch.variant = "ticker"
    /\ wpc \in {"init", "pass", "select", "blocked", "tickcase"}
    /\ wpc = "blocked" \/ ~tickC
    /\ IF wpc = "blocked"
       THEN wpc' = "tickcase" /\ UNCHANGED tickC
       ELSE tickC' = TRUE /\ UNCHANGED wpc
    /\ UNCHANGED << capVars, chatVars, normVars, planVars, execVars, watch, sigChan, screen, passes >>

\* the timer of this select's time.After fires
WatchTimer ==
    /\ watch.variant = "after"
    /\ wpc = "blocked"
    /\ wpc' = "tickcase"
    /\ UNCHANGED << capVars, chatVars, normVars, planVars, execVars, watch, sigChan, tickC, screen, passes >>

\* case <-sigChan: "Watch mode stopped", return nil
WatchStop ==
    /\ wpc = "sigcase"
    /\ wpc' = "stopped"
    /\ phase' = "done"
    /\ ret' = "nil"
    /\ UNCHANGED << capVars, chatVars, normVars, planVars, demoMode, accounts, brokers, op, env, todo, calls, results,
                    warnings, visited, ref, watch, sigChan, tickC, screen, passes >>

WatchInit == Init /\ demoMode

WatchNext ==
    \/ PersistentPreRunE
    \/ watchCmd
    \/ WatchStartPass
    \/ PositionsAccount
    \/ OrdersAccount
    \/ BalanceAccount
    \/ WatchPassDone
    \/ WatchSelectSignal
    \/ WatchSelectTick
    \/ WatchSelectBlock
    \/ WatchSignal
    \/ WatchTick
    \/ WatchTimer
    \/ WatchStop

WatchSpec == WatchInit /\ [][WatchNext]_vars


\* --------------------- watch mode: captureExecutorOutput and its two copies
\* output is counted in units of which the pipe buffers PipeCapacity
MaxOutput == 4
PipeCapacity == 2

CaptureKinds == {"positions", "orders", "balance"}

\* a refresh pass is about to be captured: the wrapped operation will write
\* `out` units of output and return `err`
CaptureInit ==
    /\ ExecInit /\ ~demoMode /\ accounts = << >>
    /\ PlanIdle /\ WatchIdle /\ NormIdle /\ ChatIdle
    /\ capture \in [kind : CaptureKinds, out : 0..MaxOutput, err : BOOLEAN]
    /\ cappc = "call"
    /\ stdout = "terminal"
    /\ pipe = 0
    /\ written = 0
    /\ buf = Nil

\* oldStdout := os.Stdout; r, w, _ := os.Pipe(); os.Stdout = w
CaptureStart ==
    /\ cappc = "call"
    /\ stdout' = "pipe"
    /\ cappc' = "fn"
    /\ UNCHANGED << chatVars, execVars, planVars, watchVars, normVars, capture, pipe, written, buf >>

\* fn() prints one more unit to os.Stdout: the write to the pipe completes
\* only while the pipe has room, nothing reads from it while fn runs
FnWrite ==
    /\ cappc = "fn"
    /\ written < capture.out
    /\ pipe < PipeCapacity
    /\ pipe' = pipe + 1
    /\ written' = written + 1
    /\ UNCHANGED << chatVars, execVars, planVars, watchVars, normVars, capture, cappc, stdout, buf >>

\* err := fn() returns, everything written
FnReturn ==
    /\ cappc = "fn"
    /\ written = capture.out
    /\ cappc' = "restore"
    /\ UNCHANGED << chatVars, execVars, planVars, watchVars, normVars, capture, stdout, pipe, written, buf >>

\* w.Close(); os.Stdout = oldStdout
CaptureRestore ==
    /\ cappc = "restore"
    /\ stdout' = "terminal"
    /\ cappc' = "copy"
    /\ UNCHANGED << chatVars, execVars, planVars, watchVars, normVars, capture, pipe, written, buf >>

\* io.Copy(&buf, r) reads the pipe to its end; return buf.String(), err
CaptureCopy ==
    /\ cappc = "copy"
    /\ buf' = Some(pipe)
    /\ pipe' = 0
    /\ cappc' = "returned"
    /\ UNCHANGED << chatVars, execVars, planVars, watchVars, normVars, capture, stdout, written >>

CaptureNext ==
    \/ CaptureStart
    \/ FnWrite
    \/ FnReturn
    \/ CaptureRestore
    \/ CaptureCopy

CaptureSpec == CaptureInit /\ [][CaptureNext]_vars

\* ------------------------------------------- chat.go: the chat loop
MaxLines == 2

\* a line longer than bufio.Scanner's token limit (64 KiB)
LongLine == "<a line of more than 65536 characters>"

\* lines on standard input
ChatLines ==
    {"", "  ", "exit", "quit", "q", " exit ", "EXIT", "show my positions", LongLine}

\* strings.TrimSpace on those lines
TrimSpace(line) ==
    IF line = "  " THEN "" ELSE IF line = " exit " THEN "exit" ELSE line

\* executeNLPCommand returns an error for the command, without an Execute* call
ChatExecuteFails(cmd) ==
    \/ RejectsInvalid(cmd)
    \/ cmd.Intent = IntentTrail /\ (IsNil(cmd.TriggerPrice) \/ IsNil(cmd.CallbackRate))
    \/ cmd.Intent = IntentUnknown

\* what the loop did with a line: whether ParseCommand and an Execute*
\* operation were called, and what was printed
ChatEntry(line, nlp, broker, report) ==
    [line |-> line, nlp |-> nlp, broker |-> broker, report |-> report]

\* the chat loop at its first prompt, with the lines standard input will give
ChatInit ==
    /\ ExecInit /\ ~demoMode /\ accounts = << >>
    /\ PlanIdle /\ WatchIdle /\ NormIdle /\ CaptureIdle
    /\ stdin \in UNION {[1..k -> ChatLines] : k \in 0..MaxLines}
    /\ chatpc = "prompt"
    /\ chatEnd = "none"
    /\ chatLog = << >>

\* if !scanner.Scan() { break }: at end of input, or when the scanner gives up
\* on a line longer than its buffer may grow
ChatScanStops ==
    /\ chatpc = "prompt"
    /\ \/ stdin = << >> /\ chatEnd' = "eof"
       \/ stdin # << >> /\ Head(stdin) = LongLine /\ chatEnd' = "scan error"
    /\ chatpc' = "ended"
    /\ UNCHANGED << capVars, execVars, planVars, watchVars, normVars, stdin, chatLog >>

\* if input == "" { continue }
ChatEmptyLine ==
    /\ chatpc = "prompt"
    /\ stdin # << >> /\ Head(stdin) # LongLine
    /\ TrimSpace(Head(stdin)) = ""
    /\ stdin' = Tail(stdin)
    /\ chatLog' = Append(chatLog, ChatEntry(Head(stdin), FALSE, FALSE, "none"))
    /\ UNCHANGED << capVars, execVars, planVars, watchVars, normVars, chatpc, chatEnd >>

\* input == "exit" || input == "quit" || input == "q": Goodbye, break
ChatExit ==
    /\ chatpc = "prompt"
    /\ stdin # << >> /\ Head(stdin) # LongLine
    /\ TrimSpace(Head(stdin)) \in {"exit", "quit", "q"}
    /\ stdin' = Tail(stdin)
    /\ chatpc' = "ended"
    /\ chatEnd' = "exit"
    /\ chatLog' = Append(chatLog, ChatEntry(Head(stdin), FALSE, FALSE, "Goodbye!"))
    /\ UNCHANGED << capVars, execVars, planVars, watchVars, normVars >>

\* any other line: ParseCommand, then executeNLPCommand; either error is
\* printed and the loop goes on
ChatCommand ==
    /\ chatpc = "prompt"
    /\ stdin # << >> /\ Head(stdin) # LongLine
    /\ TrimSpace(Head(stdin)) \notin {"", "exit", "quit", "q"}
    /\ stdin' = Tail(stdin)
    /\ \/ chatLog' = Append(chatLog, ChatEntry(Head(stdin), TRUE, FALSE, "Failed to parse"))
       \/ \E cmd \in NLPOutputs :
             chatLog' = Append(chatLog,
                               IF ChatExecuteFails(cmd)
                               THEN ChatEntry(Head(stdin), TRUE, FALSE, "Execution failed")
                               ELSE ChatEntry(Head(stdin), TRUE, TRUE, "none"))
    /\ UNCHANGED << capVars, execVars, planVars, watchVars, normVars, chatpc, chatEnd >>

ChatNext ==
    \/ ChatScanStops
    \/ ChatEmptyLine
    \/ ChatExit
    \/ ChatCommand

ChatSpec == ChatInit /\ [][ChatNext]_vars

\* ============================================================ properties
Connected == DOMAIN brokers
EnabledNames == {accounts[i].Name : i \in EnabledIndices(accounts)}
Returned == phase = "done" /\ ret = "nil"
Visited == SeqToSet(visited)

CallsOf(cs, kind) == {i \in 1..Len(cs) : cs[i].kind = kind}
Made(a, kind) == CallsOf(calls[a], kind) # {}
MarkedFailed(rs) == \E i \in 1..Len(rs) : rs[i].outcome = Failed
OnlyOutcome(a, outcome) == Len(results[a]) = 1 /\ results[a][1].outcome = outcome

\* C1: when ExecuteOpenPosition has returned, the open pipeline was attempted
\* (GetBalance was called and an outcome reported) on every enabled account,
\* whatever failed on the other accounts.
C1_OpenAttemptedOnEveryAccount ==
    (Returned /\ op.kind = "open") =>
        \A n \in EnabledNames :
            /\ n \in Connected
            /\ n \in Visited
            /\ Len(calls[n]) >= 1
            /\ calls[n][1].kind = "GetBalance"
            /\ Len(results[n]) >= 1

\* C1 witness: an open in which the account visited first failed and the one
\* visited after it went through to a placed order.
C1_Witness ==
    /\ Returned /\ op.kind = "open" /\ Len(visited) = 2
    /\ MarkedFailed(results[visited[1]])
    /\ OnlyOutcome(visited[2], Succeeded)
    /\ Made(visited[2], "PlaceOrder")

\* the first run failed on exactly one connection and the failure-free run of the
\* same invocation has returned too
OneFailingConnection ==
    /\ ref.active /\ Returned
    /\ Cardinality({a \in Connected : ref.env[a].fail # NoFail}) = 1

UnaffectedByOthersFailure ==
    \A a \in Connected :
        ref.env[a].fail = NoFail =>
            /\ ref.calls[a] = calls[a]
            /\ ref.results[a] = results[a]

\* C2 as stated, on the operations it names (open, balance): N results, exactly
\* one account marked failed, the others identical to the failure-free run.
C2_ExactlyOneFailed ==
    (OneFailingConnection /\ op.kind \in {"open", "balance"}) =>
        /\ \A n \in EnabledNames : n \in Connected /\ Len(ref.results[n]) >= 1
        /\ Cardinality({a \in Connected : MarkedFailed(ref.results[a])}) = 1
        /\ UnaffectedByOthersFailure

\* C2 amended: with exactly one connection configured to fail, every enabled
\* account has a result, every other account's calls and outcomes are those of
\* the failure-free run, and so an account other than the failing one is marked
\* failed only if it is marked failed in the failure-free run as well.
C2_OthersUnaffected ==
    OneFailingConnection =>
        /\ \A n \in EnabledNames : n \in Connected /\ Len(ref.results[n]) >= 1
        /\ UnaffectedByOthersFailure
        /\ \A a \in Connected :
              (MarkedFailed(ref.results[a]) /\ ref.env[a].fail = NoFail)
                  => MarkedFailed(results[a])
        /\ (op.kind \in {"open", "balance"}) =>
              \A a \in Connected : ref.env[a].fail # NoFail => MarkedFailed(ref.results[a])

\* C2 witness: an open on two accounts, one failing and marked failed, the other
\* with a placed order in both runs.
C2_Witness ==
    /\ OneFailingConnection /\ op.kind = "open" /\ Cardinality(Connected) = 2
    /\ \E a, b \in Connected :
          /\ a # b
          /\ ref.env[a].fail = "PlaceOrder" /\ MarkedFailed(ref.results[a])
          /\ ~MarkedFailed(results[a])
          /\ ref.results[b] = << Result(Succeeded, "order placed") >>
          /\ results[b] = ref.results[b]

\* the account's loop body reports once per open position
PerPositionReport(a) ==
    /\ op.kind \in {"close", "cancel"}
    /\ op.symbol = NoSymbol
    /\ ~Fails(env[a], "GetPositions", NoSymbol)
    /\ Len(env[a].positions) > 0

C4_InvalidNeverReachesBroker ==
    ~op.cmd.Valid =>
        /\ phase = "done"
        /\ ret \notin {"nil", "none"}
        /\ \A a \in Connected : calls[a] = << >> /\ results[a] = << >>

\* C4 witness: chat mode returned the validation errors of an invalid open
\* command while a connection was available.
C4_Witness ==
    /\ phase = "done" /\ op.kind = "chat" /\ op.cmd.Intent = IntentOpen
    /\ ~op.cmd.Valid /\ Len(op.cmd.Errors) > 0
    /\ ret = "validation errors"
    /\ Connected # {}

PriceObtained(a) == \E i \in CallsOf(calls[a], "GetCurrentPrice") : calls[a][i].ok

\* the entry of a limit order is on the side of the market price where the
\* exchange would fill it at once
WouldExecuteImmediately(cmd, e) ==
    \/ Val(cmd.Side) = Long /\ Val(cmd.EntryPrice) > e.price
    \/ Val(cmd.Side) = Short /\ Val(cmd.EntryPrice) < e.price

\* C5: an open whose entry is on the wrong side of the market price fails on
\* that account with a would-execute-immediately error, and neither SetLeverage
\* nor PlaceOrder is called there.
C5_WrongSideEntryRejected ==
    \A a \in Visited :
        (op.kind = "open" /\ PriceObtained(a) /\ WouldExecuteImmediately(op.cmd, env[a]))
            => /\ OnlyOutcome(a, Failed)
               /\ ~Made(a, "SetLeverage")
               /\ ~Made(a, "PlaceOrder")

\* the position the account holds on the symbol of order request r
TargetOf(a, r) == GetPosition(env[a], r.Symbol)

\* the operation looked for a position to act on and the account has none
NoTargetPosition(a) ==
    IF op.kind = "close" /\ op.symbol = NoSymbol
    THEN /\ ~Fails(env[a], "GetPositions", NoSymbol)
         /\ Len(env[a].positions) = 0
    ELSE /\ ~Fails(env[a], "GetPosition", op.symbol)
         /\ IsNil(GetPosition(env[a], op.symbol))

ReducingKinds == {"close", "trail", "breakeven"}

\* C6: in close, trail and break-even an account found to have no position on
\* the target is reported skipped, not failed, no PlaceOrder and no
\* CancelAllOrders is sent to it, and the loop goes on to the remaining accounts.
C6_NoPositionIsSkipped ==
    /\ \A a \in Visited :
          (op.kind \in ReducingKinds /\ NoTargetPosition(a)) =>
              /\ OnlyOutcome(a, Skipped)
              /\ ~Made(a, "PlaceOrder")
              /\ ~Made(a, "CancelAllOrders")
    /\ (Returned /\ op.kind \in ReducingKinds) => Visited = Connected

\* C6 witness: a break-even that skipped the account visited first, which has no
\* position, and placed the stop on the account visited next.
C6_Witness ==
    /\ Returned /\ op.kind = "breakeven" /\ Len(visited) = 2
    /\ NoTargetPosition(visited[1]) /\ OnlyOutcome(visited[1], Skipped)
    /\ OnlyOutcome(visited[2], Succeeded) /\ Made(visited[2], "PlaceOrder")

PlacedOrders(a) == {calls[a][i].arg : i \in CallsOf(calls[a], "PlaceOrder")}

\* C7: every order placed by close, trailing stop and break-even is reduce-only
\* and on the side opposite to the position it targets.
C7_ReduceOnlyOppositeSide ==
    \A a \in Connected :
        op.kind \in ReducingKinds =>
            \A r \in PlacedOrders(a) :
                /\ r.ReduceOnly = TRUE
                /\ ~IsNil(TargetOf(a, r))
                /\ r.Side = (IF Val(TargetOf(a, r)).Side = Long THEN Short ELSE Long)

\* C7 witness: a close placed a LONG reduce-only order against a SHORT position.
C7_Witness ==
    \E a \in Connected : \E r \in PlacedOrders(a) :
        /\ op.kind = "close"
        /\ r.ReduceOnly /\ r.Side = Long
        /\ Val(TargetOf(a, r)).Side = Short

\* C8: a close with 0 < p < 100 places an order of size position.Size * p / 100,
\* a close with p = 100 (the default) places one of the full position.Size, and
\* the size of a close order never exceeds the size of the position.
C8_PartialCloseSize ==
    \A a \in Connected :
        op.kind = "close" =>
            \A r \in PlacedOrders(a) :
                LET pos == Val(TargetOf(a, r))
                    p == op.percentage
                IN  /\ (0 < p /\ p < 100) => RatEq(r.Size, RatMul(pos.Size, Rat(p, 100)))
                    /\ p = 100 => RatEq(r.Size, pos.Size)
                    /\ RatLeq(r.Size, pos.Size)

\* C8 witness: closing 50% of a position of size 0.2 placed an order of size 0.1.
C8_Witness ==
    \E a \in Connected : \E r \in PlacedOrders(a) :
        /\ op.kind = "close" /\ op.percentage = 50
        /\ RatEq(Val(TargetOf(a, r)).Size, Rat(2, 10))
        /\ RatEq(r.Size, Rat(1, 10))

\* C9: with no account enabled a batch operation fails as a whole: it never
\* completes successfully with nothing done.
C9_NoEnabledAccountIsFatal ==
    EnabledIndices(accounts) = {} => ~Returned

\* the configuration entries whose credentials built a connection
ConnectionsOf(i) == {n \in Connected : brokers[n].account = i}

\* C10: once the executor is constructed, every enabled account has exactly one
\* connection of its own and no disabled account has one.
C10_OneConnectionPerEnabledAccount ==
    phase \in {"ready", "running"} =>
        \A i \in 1..Len(accounts) :
            Cardinality(ConnectionsOf(i)) = (IF accounts[i].Enabled THEN 1 ELSE 0)

\* the connections that broker calls of this run went through
UsedConnections == {a \in DOMAIN calls : Len(calls[a]) > 0}

\* C11: in demo mode every connection the executor created is a demo
\* connection, and every broker call of the run went through a demo connection.
C11_DemoModeOnlyDemoConnections ==
    demoMode =>
        /\ \A a \in Connected : brokers[a].demo
        /\ \A a \in UsedConnections : a \in Connected /\ brokers[a].demo

\* a demo run that placed an order on each of two connections
C11_Witness ==
    /\ demoMode /\ Returned /\ op.kind = "open"
    /\ Cardinality(Connected) = 2
    /\ \A a \in Connected : Made(a, "PlaceOrder")

\* the take-profit the user's flags ask for: --tp when given, else from --rr
RequestedTakeProfit(cmd) ==
    IF ~IsNil(cmd.TakeProfit) THEN Val(cmd.TakeProfit)
    ELSE CalculateRRTakeProfit(Val(cmd.Side), Val(cmd.EntryPrice), Val(cmd.StopLoss),
                               IF IsNil(cmd.RRRatio) THEN DefaultRR ELSE Val(cmd.RRRatio))

\* C12: the take-profit leg of every order placed by open has the price the
\* user's input asks for: the --tp value when given, otherwise the price at
\* --rr times the stop distance from entry.
C12_TakeProfitFollowsInput ==
    op.kind = "open" =>
        \A a \in Connected : \A r \in PlacedOrders(a) :
            /\ ~IsNil(r.TakeProfit)
            /\ Val(r.TakeProfit).TriggerPrice = RequestedTakeProfit(op.cmd)

\* C13: the entry order of an open is LIMIT unless the command asks for a
\* market order, and a command that asks for one with --market is carried out
\* with a MARKET entry order rather than refused for the flag.
C13_EntryKindFollowsRequest ==
    op.kind = "open" =>
        /\ \A a \in Connected : \A r \in PlacedOrders(a) :
               r.Type = (IF op.market THEN OrderTypeMarket ELSE OrderTypeLimit)
        /\ op.market => ret # "unknown flag"

\* C14: the built request has a stop-loss leg exactly when the plan has a
\* stop-loss; the leg triggers at the plan's stop-loss price, has order price 0
\* and works on the mark price; symbol, side, size and entry price are the plan's.
C14_StopLossLeg ==
    ~IsNil(orderReq) =>
        LET r == Val(orderReq) IN
        /\ IsNil(r.StopLoss) <=> IsNil(plan.StopLoss)
        /\ ~IsNil(plan.StopLoss) =>
               /\ Val(r.StopLoss).TriggerPrice = Val(plan.StopLoss).Price
               /\ Val(r.StopLoss).OrderPrice = 0
               /\ Val(r.StopLoss).WorkingType = WorkingTypeMark
        /\ r.Symbol = plan.Symbol /\ r.Side = plan.Side
        /\ r.Size = plan.Size /\ r.Price = plan.EntryPrice

\* a request built from a plan whose stop-loss is at 110
C14_Witness ==
    /\ ~IsNil(orderReq)
    /\ plan.StopLoss = Some([Price |-> 110])
    /\ ~IsNil(Val(orderReq).StopLoss)

\* C15: the built request has a take-profit leg exactly when the plan has a
\* take-profit level; the leg's trigger and order price are the first level's
\* price, and the levels after the first do not change the request.
C15_FirstTakeProfitLeg ==
    ~IsNil(orderReq) =>
        LET r == Val(orderReq) IN
        /\ IsNil(r.TakeProfit) <=> Len(plan.TakeProfits) = 0
        /\ Len(plan.TakeProfits) > 0 =>
               /\ Val(r.TakeProfit).TriggerPrice = plan.TakeProfits[1].Price
               /\ Val(r.TakeProfit).OrderPrice = plan.TakeProfits[1].Price
               /\ r = buildOrderRequest(
                          [plan EXCEPT !.TakeProfits = << plan.TakeProfits[1] >>])

\* a request built from a plan with levels at 120 then 130
C15_Witness ==
    /\ ~IsNil(orderReq)
    /\ plan.TakeProfits = << [Price |-> 120], [Price |-> 130] >>
    /\ Val(Val(orderReq).TakeProfit).TriggerPrice = 120

\* the positions in planCalls of acknowledged entry orders
AcknowledgedEntries ==
    {i \in CallsOf(planCalls, "PlaceOrder") :
        planCalls[i].ok /\ ~planCalls[i].arg.ReduceOnly}

SignalActedOn == wpc \in {"sigcase", "stopped"}

\* C17: when the watch handler acts on a cancellation signal no pass is in
\* flight: the last pass started has visited every account and the terminal
\* shows its output.
C17_PassNeverInterrupted ==
    SignalActedOn =>
        /\ phase # "running"
        /\ todo = {}
        /\ Visited = Connected
        /\ screen = results

\* the watch loop has stopped on a signal after a refresh pass over two
\* accounts, whose output is on the terminal
C17_Witness ==
    /\ wpc = "stopped"
    /\ passes = 1
    /\ Cardinality(Connected) = 2
    /\ Len(visited) = 2
    /\ screen = results

\* select takes the tick case
TakesTickCase == wpc # "tickcase" /\ wpc' = "tickcase"

\* C18: once a signal has been delivered and is waiting in sigChan, the watch
\* loop never chooses to start another pass.
C18_NoPassAfterSignal == [][TakesTickCase => ~sigChan]_vars

\* C19: the watch loop chooses to start a refresh pass only out of a wait: it
\* blocked in select after the previous pass completed.
C19_PassOnlyAfterWait == [][TakesTickCase => wpc = "blocked"]_vars

\* C20: the accounts of a batch operation are visited, and their results
\* printed, in the order of their entries in the configuration.
C20_ConfigurationOrder ==
    \A i, j \in 1..Len(visited) :
        i < j => brokers[visited[i]].account < brokers[visited[j]].account

\* buildNormalizedCommand returned a command (and no error)
NormReturned == ~IsNil(normalized) /\ ~Val(normalized).err
NormCmd == Val(normalized).cmd

\* C21: every command the normalizer returns is Valid if and only if its
\* missing-field list and its semantic-error list are both empty.
C21_ValidIffListsEmpty ==
    NormReturned =>
        (NormCmd.Valid <=> (Len(NormCmd.Missing) = 0 /\ Len(NormCmd.Errors) = 0))

\* a returned command that is invalid through its error list alone
C21_Witness ==
    /\ NormReturned
    /\ ~NormCmd.Valid
    /\ Len(NormCmd.Missing) = 0
    /\ NormCmd.Errors = << ErrRisk >>

\* the required fields of open that the flags leave out, as the normalizer
\* names them
MissingFields ==
    (IF flags.openSymbol = "" THEN {"symbol"} ELSE {})
    \cup (IF flags.openEntry <= 0 THEN {"entry_price"} ELSE {})
    \cup (IF flags.openSL <= 0 THEN {"stop_loss"} ELSE {})

\* C22 as stated: a command with a missing required field has every missing
\* field in its missing-list and an empty error-list, neither the price-logic
\* nor the risk-bounds check having run.
C22_MissingSkipsBothChecks ==
    (NormReturned /\ MissingFields # {}) =>
        /\ SeqToSet(NormCmd.Missing) = MissingFields
        /\ Len(NormCmd.Errors) = 0

\* C22 as amended: a command with a missing required field has every missing
\* field in its missing-list and no price-logic error; its error-list holds
\* at most the risk-bounds error.
C22_MissingSkipsPriceLogic ==
    (NormReturned /\ MissingFields # {}) =>
        /\ SeqToSet(NormCmd.Missing) = MissingFields
        /\ ~NormCmd.Valid
        /\ SeqToSet(NormCmd.Errors) \subseteq {ErrRisk}

\* a SHORT command without a stop-loss, which the price-logic check would
\* reject had it run, and with a risk out of bounds
C22_Witness ==
    /\ NormReturned
    /\ NormCmd.Side = Some(Short)
    /\ NormCmd.Missing = << "stop_loss" >>
    /\ NormCmd.Errors = << ErrRisk >>

\* C23: normalizing flags whose side text is outside the vocabulary raises
\* no error and returns an invalid command with "side" in its missing-list.
C23_UnknownSideIsMissing ==
    (~IsNil(normalized) /\ IsNil(ParseSide(flags.openSide))) =>
        /\ ~Val(normalized).err
        /\ ~NormCmd.Valid
        /\ "side" \in SeqToSet(NormCmd.Missing)

\* C24: the normalizer reports the risk error, and the command is invalid,
\* exactly when the risk percent is not within 0 < r <= 100; a command whose
\* other fields are in order is Valid with r = 100.
C24_RiskBounds ==
    NormReturned =>
        LET inBounds == 0 < flags.openRisk /\ flags.openRisk <= 100 IN
        /\ (ErrRisk \in SeqToSet(NormCmd.Errors)) <=> ~inBounds
        /\ ~inBounds => ~NormCmd.Valid
        /\ (flags.openRisk = 100 /\ MissingFields = {}
               /\ ~(ErrLongSL \in SeqToSet(NormCmd.Errors))
               /\ ~(ErrShortSL \in SeqToSet(NormCmd.Errors))) => NormCmd.Valid

\* a command with risk 100 that the normalizer accepted
C24_Witness ==
    /\ NormReturned
    /\ flags.openRisk = 100
    /\ NormCmd.Valid

\* stop-loss below entry for LONG, above entry for SHORT
StopLossWellPlaced(side, entry, stopLoss) ==
    \/ side = Long /\ stopLoss < entry
    \/ side = Short /\ stopLoss > entry

\* C25: the executor's validatePriceLogic accepts exactly the well-placed
\* stop-losses; whenever the normalizer ran its own check it reached the same
\* verdict, so a command the normalizer accepted is never rejected there.
C25_PriceLogicAgrees ==
    (NormReturned /\ ~IsNil(priceLogic)) =>
        LET wellPlaced == StopLossWellPlaced(Val(NormCmd.Side), flags.openEntry,
                                             flags.openSL)
            normSays == /\ ~(ErrLongSL \in SeqToSet(NormCmd.Errors))
                        /\ ~(ErrShortSL \in SeqToSet(NormCmd.Errors))
        IN  /\ (Val(priceLogic).err = "") <=> wellPlaced
            /\ NormValidSoFar(flags) => (normSays <=> wellPlaced)
            /\ NormCmd.Valid => Val(priceLogic).err = ""

\* a SHORT command with the stop-loss above entry accepted by both checks
C25_Witness ==
    /\ NormReturned /\ ~IsNil(priceLogic)
    /\ NormCmd.Valid
    /\ NormCmd.Side = Some(Short)
    /\ flags.openSL = 110
    /\ Val(priceLogic).err = ""

Deviates(entry, currentPrice) ==
    Abs(entry - currentPrice) * 100 > DeviationWarnPercent * currentPrice

RefusedAsInvalid ==
    /\ phase = "done"
    /\ ret \in {"missing parameters", "missing required parameters", "validation errors"}

\* C28: the command in hand with any other confidence value gets the same
\* validation verdict as the one the handler gave, and an open makes on every
\* account the broker calls the other command would make.
C28_ConfidenceIgnored ==
    op.kind # "none" =>
        \A c \in Confidences :
            LET other == [op.cmd EXCEPT !.Confidence = c] IN
            /\ RefusedAsInvalid <=> RejectsInvalid(other)
            /\ op.kind = "open" =>
                  \A a \in Visited :
                      /\ calls[a] = OpenBody(other, env[a]).calls
                      /\ results[a] = OpenBody(other, env[a]).results

\* a chat command of confidence 0 opened a position
C28_Witness ==
    /\ op.kind = "open"
    /\ op.cmd.Confidence = 0
    /\ IsNil(op.cmd.RRRatio)
    /\ \E a \in Visited : \E i \in CallsOf(calls[a], "PlaceOrder") : calls[a][i].ok

\* the planner returned a plan for the parameters in hand
Planned == params # NoParams /\ ~plan.err

\* leverage l is enough for the position: l * balance >= size * entry, with
\* size = balance * risk / 100 / |entry - stopLoss| and the balance positive
LeverageCovers(l) ==
    l * 100 * Abs(params.p.EntryPrice - params.p.StopLoss)
        >= params.p.RiskPercent * params.p.EntryPrice

ScenarioA ==
    /\ params # NoParams
    /\ params.p.AccountBalance = 1000 /\ params.p.RiskPercent = 2
    /\ params.p.EntryPrice = 45000 /\ params.p.StopLoss = 44500

\* C29: the leverage of a computed plan, and the value passed to SetLeverage
\* for it, is the least whole leverage covering size * entry with the balance,
\* held within 1..125; the plan signals LeverageExceedsMax exactly when 125
\* does not cover it; Scenario A gives size 0.04 and leverage 2.
C29_LeverageClamped ==
    Planned =>
        /\ plan.Leverage \in 1..125
        /\ LeverageCovers(plan.Leverage) \/ plan.Leverage = MaxLeverage
        /\ plan.Leverage = 1 \/ ~LeverageCovers(plan.Leverage - 1)
        /\ plan.LeverageExceedsMax <=> ~LeverageCovers(MaxLeverage)
        /\ \A i \in CallsOf(planCalls, "SetLeverage") :
              planCalls[i].arg.leverage = plan.Leverage
        /\ ScenarioA => RatEq(plan.Size, Rat(4, 100)) /\ plan.Leverage = 2

\* SetLeverage was called with 125 for a plan that needs more than 125
C29_Witness ==
    /\ Planned
    /\ plan.LeverageExceedsMax
    /\ \E i \in CallsOf(planCalls, "SetLeverage") :
          planCalls[i].ok /\ planCalls[i].arg.leverage = 125

\* C30: the take-profit of a computed plan is r times the entry-to-stop-loss
\* distance away from the entry, above it for LONG and below it for SHORT;
\* LONG with entry 3950, stop-loss 3900 and r = 2 gives 4050.
C30_TakeProfitAtRatio ==
    Planned =>
        LET entry == params.p.EntryPrice
            stopLoss == params.p.StopLoss
            d == IF entry > stopLoss THEN entry - stopLoss ELSE stopLoss - entry
            tp == plan.TakeProfits[1].Price
        IN  /\ Len(plan.TakeProfits) = 1
            /\ params.p.Side = Long => tp > entry /\ tp - entry = params.rr * d
            /\ params.p.Side = Short => tp < entry /\ entry - tp = params.rr * d
            /\ (params.p.Side = Long /\ entry = 3950 /\ stopLoss = 3900
                  /\ params.rr = 2) => tp = 4050

\* the plan of a SHORT with entry 50000, stop-loss 51000 and r = 3
C30_Witness ==
    /\ Planned
    /\ params.p.Side = Short /\ params.p.EntryPrice = 50000
    /\ params.p.StopLoss = 51000 /\ params.rr = 3
    /\ plan.TakeProfits[1].Price = 47000

\* the broker calls of the open pipeline, in the order of the code
OpenSteps == << "GetBalance", "GetCurrentPrice", "SetLeverage", "PlaceOrder" >>

\* the plan the planner returns for the open in hand on account a
PlanFor(a) ==
    CalculatePosition(
        PositionParams(op.cmd.Symbol, brokerSideFromIntent(Val(op.cmd.Side)),
                       Val(op.cmd.EntryPrice), Val(op.cmd.StopLoss), env[a].balance,
                       Val(op.cmd.RiskPercent), MaxLeverage),
        DefaultRR)

\* C31: within one open, the calls each connection saw are a prefix of
\* GetBalance, GetCurrentPrice, SetLeverage, PlaceOrder, each at most once,
\* every call before the last having succeeded; PlaceOrder follows a
\* successful SetLeverage with the plan's leverage and side.
C31_OpenCallOrder ==
    op.kind = "open" =>
        \A a \in Connected :
            LET cs == calls[a] IN
            /\ Len(cs) <= Len(OpenSteps)
            /\ \A i \in 1..Len(cs) :
                  /\ cs[i].kind = OpenSteps[i]
                  /\ i < Len(cs) => cs[i].ok
            /\ \A i \in CallsOf(cs, "PlaceOrder") :
                  /\ i = 4
                  /\ cs[3].kind = "SetLeverage" /\ cs[3].ok
                  /\ cs[3].sym = cs[4].sym
                  /\ cs[3].arg.leverage = PlanFor(a).Leverage
                  /\ cs[3].arg.side = (IF Val(op.cmd.Side) = Short THEN "SHORT" ELSE "LONG")

\* one account went through the four calls, another stopped at a failed
\* SetLeverage
C31_Witness ==
    /\ op.kind = "open"
    /\ \E a, b \in Visited :
          /\ Len(calls[a]) = 4 /\ calls[a][4].ok
          /\ Len(calls[b]) = 3 /\ ~calls[b][3].ok

\* the account holds a position on the symbol of the operation, and the
\* connection says so
HoldsPosition(a) ==
    /\ ~Fails(env[a], "GetPosition", op.symbol)
    /\ ~IsNil(GetPosition(env[a], op.symbol))

\* C32: on every account holding a position on the symbol, break-even calls
\* CancelAllOrders on the symbol and then, only if that succeeded, PlaceOrder
\* with a reduce-only STOP order of the full position size whose stop price is
\* the position's entry price.
C32_BreakEvenCancelsThenStops ==
    op.kind = "breakeven" =>
        \A a \in Visited :
            HoldsPosition(a) =>
                LET cs == calls[a]
                    pos == Val(GetPosition(env[a], op.symbol))
                IN  /\ Len(cs) >= 2
                    /\ cs[2].kind = "CancelAllOrders" /\ cs[2].sym = op.symbol
                    /\ cs[2].ok <=> Len(cs) = 3
                    /\ \A i \in CallsOf(cs, "PlaceOrder") :
                          /\ i = 3
                          /\ cs[i].arg.Symbol = op.symbol
                          /\ cs[i].arg.Type = "STOP"
                          /\ cs[i].arg.ReduceOnly = TRUE
                          /\ cs[i].arg.Size = pos.Size
                          /\ cs[i].arg.StopPrice = pos.EntryPrice
                    /\ Len(cs) = 3 => cs[3].kind = "PlaceOrder"

\* break-even placed its stop on one account and stopped at a failed
\* cancellation on another
C32_Witness ==
    /\ op.kind = "breakeven"
    /\ \E a, b \in Visited :
          /\ HoldsPosition(a) /\ Len(calls[a]) = 3 /\ calls[a][3].ok
          /\ calls[a][3].arg.StopPrice = 100
          /\ HoldsPosition(b) /\ Len(calls[b]) = 2 /\ ~calls[b][2].ok

\* the exchange cancelled the open orders of the symbol on account a
OrdersCancelled(a) ==
    \E i \in CallsOf(calls[a], "CancelAllOrders") : calls[a][i].ok

\* a stop order at the position's entry price exists on account a
BreakEvenStopExists(a) ==
    \E i \in CallsOf(calls[a], "PlaceOrder") :
        /\ calls[a][i].ok
        /\ calls[a][i].arg.Type = "STOP"
        /\ calls[a][i].arg.StopPrice = Val(GetPosition(env[a], op.symbol)).EntryPrice

\* C33: when break-even has finished with an account, either its open orders
\* are as before (nothing was cancelled) or a stop order at the position's
\* entry price exists.
C33_BreakEvenAllOrNothing ==
    op.kind = "breakeven" =>
        \A a \in Visited : ~OrdersCancelled(a) \/ BreakEvenStopExists(a)

\* C34: a captured refresh pass always goes on until the capture helper has
\* returned, whatever the amount of output, and it returns with os.Stdout back
\* on the terminal and all the output of the pass collected.
C34_CaptureTerminates ==
    capture # NoCapture =>
        /\ cappc # "returned" => ENABLED CaptureNext
        /\ cappc = "returned" =>
              /\ stdout = "terminal"
              /\ buf = Some(capture.out)

\* the per-position call of cancel and of close
AttemptKind == IF op.kind = "cancel" THEN "CancelAllOrders" ELSE "PlaceOrder"

\* the per-position calls account a saw, in order
Attempts(a) == SelectSeq(calls[a], LAMBDA c : c.kind = AttemptKind)

\* C35: cancel and close without a symbol attempt the operation once for every
\* open position of every account whose positions could be listed, in the
\* order of the listing, whichever of the attempts fail; and every account is
\* visited.
C35_EveryPositionAttempted ==
    (op.kind \in {"cancel", "close"} /\ op.symbol = NoSymbol) =>
        /\ \A a \in Visited :
              ~Fails(env[a], "GetPositions", NoSymbol) =>
                  /\ Len(Attempts(a)) = Len(env[a].positions)
                  /\ \A i \in 1..Len(env[a].positions) :
                        Attempts(a)[i].sym = env[a].positions[i].Symbol
        /\ Returned => Visited = Connected

\* close without a symbol: on the account visited first the close order of
\* the first position failed and the second position was closed; the next
\* account was visited too
C35_Witness ==
    /\ Returned /\ op.kind = "close" /\ op.symbol = NoSymbol
    /\ Len(visited) = 2
    /\ Len(Attempts(visited[1])) = 2
    /\ ~Attempts(visited[1])[1].ok
    /\ Attempts(visited[1])[2].ok
    /\ Len(Attempts(visited[2])) > 0

\* the trailing-stop request is one the trail command accepts
TrailInputAccepted ==
    /\ op.symbol # ""
    /\ op.trigger > 0
    /\ op.callback > 0 /\ op.callback <= 5

\* C36: every trailing-stop order placed is reduce-only, of the full position
\* size, with ActivationPrice a positive trigger price and CallbackRate =
\* callback / 100 for 0 < callback <= 5; a request with an empty symbol, a
\* non-positive trigger or a callback outside that range makes no broker call.
C36_TrailingStopWithinBounds ==
    op.kind = "trail" =>
        \A a \in Connected :
            /\ \A r \in PlacedOrders(a) :
                  /\ r.Type = "TRAILING_STOP"
                  /\ r.ReduceOnly = TRUE
                  /\ ~IsNil(TargetOf(a, r)) /\ r.Size = Val(TargetOf(a, r)).Size
                  /\ Val(r.Trailing).ActivationPrice = op.trigger
                  /\ op.trigger > 0
                  /\ RatEq(Val(r.Trailing).CallbackRate, Rat(op.callback, 100))
                  /\ op.callback > 0 /\ op.callback <= 5
            /\ ~TrailInputAccepted => calls[a] = << >>

\* C37: for every percentage p the close command lets through, each close
\* order placed has size position.Size * p / 100.
C37_CloseSizeIsFraction ==
    op.kind = "close" =>
        \A a \in Connected :
            \A r \in PlacedOrders(a) :
                RatEq(r.Size, RatMul(Val(TargetOf(a, r)).Size, Rat(op.percentage, 100)))

\* the query a view operation renders, and the one it only decorates with
PrimaryQuery == IF op.kind = "positions" THEN "GetPositions" ELSE "GetOrders"
SecondaryQuery == IF op.kind = "positions" THEN "GetOrders" ELSE "GetPositions"

\* C38: in the two view operations an account is marked failed exactly when
\* its primary query fails; when only the secondary query fails the account's
\* table is still rendered, without the secondary data; every account is
\* processed in both cases.
C38_SecondaryQueryDegrades ==
    op.kind \in {"positions", "orders"} =>
        /\ \A a \in Visited :
              IF Fails(env[a], PrimaryQuery, op.symbol)
              THEN OnlyOutcome(a, Failed) /\ Len(calls[a]) = 1
              ELSE /\ OnlyOutcome(a, Succeeded)
                   /\ Len(calls[a]) = 2
                   /\ calls[a][2].kind = SecondaryQuery
                   /\ calls[a][2].ok = ~Fails(env[a], SecondaryQuery, op.symbol)
                   /\ results[a][1].reason =
                         (IF op.kind = "positions"
                          THEN IF calls[a][2].ok THEN "positions table"
                               ELSE "positions table, no orders"
                          ELSE IF calls[a][2].ok THEN "orders table"
                               ELSE "orders table, no positions")
        /\ Returned => Visited = Connected

\* positions: the account visited first lost its GetOrders query and still
\* got its table, and the next account was processed
C38_Witness ==
    /\ Returned /\ op.kind = "positions" /\ Len(visited) = 2
    /\ Len(calls[visited[1]]) = 2 /\ ~calls[visited[1]][2].ok
    /\ OnlyOutcome(visited[1], Succeeded)
    /\ results[visited[1]][1].reason = "positions table, no orders"
    /\ Len(calls[visited[2]]) > 0

\* C39: the chat loop ends only on exit, quit or q, or at the end of the
\* input; a line whose parse or execution failed is followed by the next
\* prompt; an empty line makes neither an NLP call nor a broker call.
C39_ChatEndsOnExitOrEndOfInput ==
    /\ chatpc = "ended" =>
          \/ chatEnd = "exit" /\ TrimSpace(chatLog[Len(chatLog)].line) \in {"exit", "quit", "q"}
          \/ chatEnd = "eof" /\ stdin = << >>
    /\ \A i \in 1..Len(chatLog) :
          /\ TrimSpace(chatLog[i].line) = "" => ~chatLog[i].nlp /\ ~chatLog[i].broker
          /\ (/\ chatLog[i].report \in {"Failed to parse", "Execution failed"}
              /\ i = Len(chatLog))
                => (chatpc = "prompt" \/ (chatEnd = "eof" /\ stdin = << >>))

====
